---- MODULE Spec2Model ----
(***************************************************************************)
(* Model of the provisioner's apply script (scripts/apply.ts): the batch   *)
(* driver main(), applyFile(), provisionApplication() and                  *)
(* provisionCompose(), run against the Dokploy control plane reached       *)
(* through scripts/lib/dokploy-client.ts.                                  *)
(*                                                                         *)
(* One action is one stretch of code between two awaits: it consumes the   *)
(* response of the call it awaited and runs up to the next remote call.    *)
(* The control plane answers a call in a step of its own (Respond).        *)
(***************************************************************************)
EXTENDS Naturals, Sequences, FiniteSets, TLC

\* ------------------------------------------------------------------------
\* Bounds of the model
\* ------------------------------------------------------------------------
\* longest argument list handed to the script
MaxFiles == 2
\* applies of the demo manifest completed by earlier invocations of the script
MaxPrior == 1

\* ------------------------------------------------------------------------
\* Program constants
\* ------------------------------------------------------------------------
DOMAIN_SUFFIX == "apps.quickable.co"

DEFAULT_PORT == 3000

INITIAL_TITLE == "Initial deployment via provisioner"

QUOTAS ==
  [S |-> [cpuLimit |-> "500000000", memoryLimit |-> "536870912"],
   M |-> [cpuLimit |-> "1000000000", memoryLimit |-> "1073741824"],
   L |-> [cpuLimit |-> "2000000000", memoryLimit |-> "2147483648"]]

GHCR_REGISTRY == "ytaBlVofa-w7IDUajjpiw"

writableOrgs == {"tini-works"}

\* ------------------------------------------------------------------------
\* Inputs: the files named on the command line and the process environment
\* ------------------------------------------------------------------------
NoConfig ==
  [kind |-> "", hasMeta |-> FALSE, name |-> "", src |-> "", image |-> "", tag |-> "",
   owner |-> "", repo |-> "", branch |-> "", path |-> "",
   hasBuild |-> FALSE, buildType |-> "", dockerfile |-> "", context |-> "",
   size |-> "S", ports |-> <<>>, hasEnv |-> FALSE, env |-> <<>>, secretRefs |-> <<>>,
   ingressService |-> "", ingressPort |-> 0]

\* Scenario A of the specification: docker image nginx:latest, size S, port 80.
DemoConfig ==
  [NoConfig EXCEPT !.kind = "Application", !.hasMeta = TRUE, !.name = "demo",
                   !.src = "docker", !.image = "nginx", !.tag = "latest",
                   !.size = "S", !.ports = <<80>>]

\* The same application edited: built from a repository, size L, port 8080.
Demo2Config ==
  [NoConfig EXCEPT !.kind = "Application", !.hasMeta = TRUE, !.name = "demo",
                   !.src = "github", !.owner = "tini-works", !.repo = "demo",
                   !.branch = "main",
                   !.hasBuild = TRUE, !.buildType = "dockerfile",
                   !.size = "L", !.ports = <<8080>>,
                   !.hasEnv = TRUE, !.env = << <<"MODE", "prod">> >>,
                   !.secretRefs = << [name |-> "DB", secret |-> "DATABASE_URL"],
                                     [name |-> "KEY", secret |-> "API_KEY"] >>]

StackConfig ==
  [NoConfig EXCEPT !.kind = "ComposeStack", !.hasMeta = TRUE, !.name = "shop",
                   !.src = "github", !.owner = "acme", !.repo = "shop",
                   !.branch = "main",
                   !.hasEnv = TRUE, !.env = << <<"TZ", "UTC">> >>,
                   !.ingressService = "web", !.ingressPort = 8000]

DbConfig ==
  [NoConfig EXCEPT !.kind = "Database", !.hasMeta = TRUE, !.name = "db"]

\* An application whose github source names no owner, built by the workflow
\* into a prebuilt image.
WikiConfig ==
  [NoConfig EXCEPT !.kind = "Application", !.hasMeta = TRUE, !.name = "wiki",
                   !.src = "github", !.repo = "wiki", !.branch = "main",
                   !.size = "S", !.ports = <<8080>>]

\* A docker image whose manifest also carries a spec.build section.
ApiConfig ==
  [NoConfig EXCEPT !.kind = "Application", !.hasMeta = TRUE, !.name = "api",
                   !.src = "docker", !.image = "api", !.tag = "1",
                   !.hasBuild = TRUE, !.buildType = "dockerfile",
                   !.size = "S", !.ports = <<8080>>]

\* A repository of a registered owner, without a spec.build section.
BlogConfig ==
  [NoConfig EXCEPT !.kind = "Application", !.hasMeta = TRUE, !.name = "blog",
                   !.src = "github", !.owner = "tini-works", !.repo = "blog",
                   !.branch = "main", !.size = "S", !.ports = <<8080>>]

\* A repository of an owner that is not registered, whose spec.build section
\* gives the context only.
DocsConfig ==
  [NoConfig EXCEPT !.kind = "Application", !.hasMeta = TRUE, !.name = "docs",
                   !.src = "github", !.owner = "acme", !.repo = "docs",
                   !.branch = "main", !.hasBuild = TRUE, !.context = "site",
                   !.size = "S", !.ports = <<8080>>]

\* A path, as far as the script reads it: the last directory segment, and the
\* file name split into its stem and its extension.
Paths ==
  [missing |-> [dir |-> "apps", stem |-> "ghost", ext |-> ".yaml"],
   garbled |-> [dir |-> "garbled", stem |-> "provision", ext |-> ".yaml"],
   db      |-> [dir |-> "apps", stem |-> "db", ext |-> ".yaml"],
   demo    |-> [dir |-> "apps", stem |-> "demo", ext |-> ".yaml"],
   demo2   |-> [dir |-> "demo", stem |-> "provision", ext |-> ".yaml"],
   stack   |-> [dir |-> "apps", stem |-> "shop", ext |-> ".yaml"],
   wiki    |-> [dir |-> "wiki", stem |-> "provision", ext |-> ".yaml"],
   api     |-> [dir |-> "api", stem |-> "provision", ext |-> ".yaml"],
   blog    |-> [dir |-> "blog", stem |-> "provision", ext |-> ".yaml"],
   docs    |-> [dir |-> "docs", stem |-> "provision", ext |-> ".yaml"]]

\* What the file system holds at each path: absent, text that readFileSync or
\* parseYaml rejects, or a parsed configuration.
Disk ==
  [missing |-> [state |-> "absent", config |-> NoConfig],
   garbled |-> [state |-> "garbled", config |-> NoConfig],
   db      |-> [state |-> "ok", config |-> DbConfig],
   demo    |-> [state |-> "ok", config |-> DemoConfig],
   demo2   |-> [state |-> "ok", config |-> Demo2Config],
   stack   |-> [state |-> "ok", config |-> StackConfig],
   wiki    |-> [state |-> "ok", config |-> WikiConfig],
   api     |-> [state |-> "ok", config |-> ApiConfig],
   blog    |-> [state |-> "ok", config |-> BlogConfig],
   docs    |-> [state |-> "ok", config |-> DocsConfig]]

\* The manifests that differ in their spec.build section only; they are applied
\* one file to an invocation.
BuildFiles == {"api", "blog", "docs"}

Files == DOMAIN Disk \ BuildFiles

getSubdomainFromPath(filePath) ==
  LET p == Paths[filePath] IN
  IF p.stem \o p.ext = "provision.yaml"
  THEN p.dir
  ELSE IF p.ext = ".yaml" THEN p.stem ELSE p.stem \o p.ext

\* SECRET_* variables of the process environment
SecretEnv == [DATABASE_URL |-> "postgres://db"]

\* config/github-orgs.yaml: owners with a registered GitHub app id (githubId,
\* "preferred") and a registered SSH key (sshKeyId, "fallback")
OrgsConfig == {[org |-> "tini-works", githubId |-> "gh-1", sshKeyId |-> "key-1"]}

NoOrg == [org |-> "", githubId |-> "", sshKeyId |-> ""]

\* String.prototype.toLowerCase: the lower-case letter of each upper-case one,
\* every other character as it is.
LowerCaseOf ==
  LET upper == "ABCDEFGHIJKLMNOPQRSTUVWXYZ"
      lower == "abcdefghijklmnopqrstuvwxyz"
  IN  [c \in { SubSeq(upper, i, i) : i \in 1..Len(upper) } |->
         LET i == CHOOSE i \in 1..Len(upper) : SubSeq(upper, i, i) = c
         IN  SubSeq(lower, i, i)]

RECURSIVE toLowerCase(_)
toLowerCase(s) ==
  IF Len(s) = 0 THEN ""
  ELSE LET c == SubSeq(s, 1, 1)
       IN  (IF c \in DOMAIN LowerCaseOf THEN LowerCaseOf[c] ELSE c)
             \o toLowerCase(SubSeq(s, 2, Len(s)))

\* owner.toLowerCase() of an owner the manifest does not give
TYPE_ERROR == "undefined is not an object (evaluating 'owner.toLowerCase')"

getOrgConfig(owner) ==
  IF \E o \in OrgsConfig : toLowerCase(o.org) = toLowerCase(owner)
  THEN CHOOSE o \in OrgsConfig : toLowerCase(o.org) = toLowerCase(owner)
  ELSE NoOrg

\* An allow-list every owner is on.
anyOwner(owner) == TRUE

canSetupAutoDeploy(owner) == toLowerCase(owner) \in writableOrgs

\* ------------------------------------------------------------------------
\* The control plane
\* ------------------------------------------------------------------------
EmptyRemote ==
  [projects |-> <<>>, apps |-> <<>>, composes |-> <<>>, domains |-> <<>>,
   deploys |-> <<>>]

\* The body of a request; a field a call does not send keeps its default.
NoArg ==
  [id |-> 0, name |-> "", sourceType |-> "", source |-> "", branch |-> "",
   buildPath |-> "", sshKey |-> "", registry |-> "", build |-> <<>>,
   cpuLimit |-> "", memoryLimit |-> "", env |-> "", host |-> "", port |-> 0,
   service |-> "", title |-> ""]

Call(op, arg) == [op |-> op, arg |-> arg]

\* What a read answers with: the projects of project.all, and for project.one
\* the project's environments, each with its applications, and its composes.
NoBody == [projects |-> << >>, environments |-> << >>, compose |-> << >>]

NoResponse == [ok |-> FALSE, id |-> 0, error |-> "", body |-> NoBody]

API_ERROR == "Dokploy API error"

LiveApp(R, id) == id \in 1..Len(R.apps) /\ R.apps[id].live
LiveCompose(R, id) == id \in 1..Len(R.composes) /\ R.composes[id].live
LiveProject(R, id) == id \in 1..Len(R.projects) /\ R.projects[id].live

\* Whether the control plane can carry the call out: its target exists.
Accepts(R, c) ==
  CASE c.op \in {"project.all", "project.create"} -> TRUE
    [] c.op = "project.one" -> LiveProject(R, c.arg.id)
    [] c.op \in {"application.create", "compose.create"} ->
         /\ LiveProject(R, c.arg.id)
         /\ \E i \in 1..Len(R.projects[c.arg.id].environments) :
              R.projects[c.arg.id].environments[i] = c.arg.id
    [] c.op \in {"application.saveDockerProvider", "application.update",
                 "application.saveGitProvider", "application.saveBuildType",
                 "application.saveEnvironment", "application.deploy",
                 "application.redeploy", "application.delete"} -> LiveApp(R, c.arg.id)
    [] c.op \in {"compose.saveGitProvider", "compose.saveGithubProvider",
                 "compose.saveEnvironment", "compose.deploy",
                 "compose.redeploy"} -> LiveCompose(R, c.arg.id)
    [] c.op = "domain.create" ->
         IF c.arg.service = "" THEN LiveApp(R, c.arg.id) ELSE LiveCompose(R, c.arg.id)
    [] OTHER -> FALSE

Keep(old, new) == IF new = "" THEN old ELSE new

\* The state of the control plane after it carried the call out, and the id
\* it answers with. A project is created with its default environment; the
\* environment's id is the project's.
Serve(R, c) ==
  LET a == c.arg IN
  CASE c.op = "project.create" ->
         [remote |-> [R EXCEPT !.projects =
                        Append(@, [name |-> a.name, live |-> TRUE,
                                   environments |-> << Len(R.projects) + 1 >>])],
          id |-> Len(R.projects) + 1]
    [] c.op = "application.create" ->
         [remote |-> [R EXCEPT !.apps =
                        Append(@, [name |-> a.name, env |-> a.id, live |-> TRUE,
                                   sourceType |-> "", source |-> "", branch |-> "",
                                   buildPath |-> "", sshKey |-> "", registry |-> "",
                                   build |-> <<>>, cpuLimit |-> "", memoryLimit |-> "",
                                   envText |-> ""])],
          id |-> Len(R.apps) + 1]
    [] c.op = "application.saveDockerProvider" ->
         [remote |-> [R EXCEPT !.apps[a.id] =
                        [@ EXCEPT !.sourceType = "docker", !.source = a.source,
                                  !.registry = a.registry]],
          id |-> a.id]
    [] c.op = "application.update" ->
         [remote |-> [R EXCEPT !.apps[a.id] =
                        [@ EXCEPT !.sourceType = Keep(@, a.sourceType),
                                  !.cpuLimit = Keep(@, a.cpuLimit),
                                  !.memoryLimit = Keep(@, a.memoryLimit)]],
          id |-> a.id]
    [] c.op = "application.saveGitProvider" ->
         [remote |-> [R EXCEPT !.apps[a.id] =
                        [@ EXCEPT !.source = a.source, !.branch = a.branch,
                                  !.buildPath = a.buildPath, !.sshKey = a.sshKey]],
          id |-> a.id]
    [] c.op = "application.saveBuildType" ->
         [remote |-> [R EXCEPT !.apps[a.id] = [@ EXCEPT !.build = a.build]],
          id |-> a.id]
    [] c.op = "application.saveEnvironment" ->
         [remote |-> [R EXCEPT !.apps[a.id] = [@ EXCEPT !.envText = a.env]],
          id |-> a.id]
    [] c.op \in {"application.deploy", "application.redeploy"} ->
         [remote |-> [R EXCEPT !.deploys =
                        Append(@, [op |-> c.op, app |-> a.id, compose |-> 0,
                                   title |-> a.title])],
          id |-> a.id]
    [] c.op = "compose.create" ->
         [remote |-> [R EXCEPT !.composes =
                        Append(@, [name |-> a.name, env |-> a.id, live |-> TRUE,
                                   sourceType |-> "", source |-> "", branch |-> "",
                                   buildPath |-> "", sshKey |-> "", envText |-> ""])],
          id |-> Len(R.composes) + 1]
    [] c.op = "compose.saveGitProvider" ->
         [remote |-> [R EXCEPT !.composes[a.id] =
                        [@ EXCEPT !.sourceType = "git", !.source = a.source,
                                  !.branch = a.branch, !.buildPath = a.buildPath,
                                  !.sshKey = a.sshKey]],
          id |-> a.id]
    [] c.op = "compose.saveGithubProvider" ->
         [remote |-> [R EXCEPT !.composes[a.id] =
                        [@ EXCEPT !.sourceType = "github", !.source = a.source,
                                  !.branch = a.branch, !.buildPath = a.buildPath]],
          id |-> a.id]
    [] c.op = "compose.saveEnvironment" ->
         [remote |-> [R EXCEPT !.composes[a.id] = [@ EXCEPT !.envText = a.env]],
          id |-> a.id]
    [] c.op = "application.delete" ->
         [remote |-> [R EXCEPT !.apps[a.id].live = FALSE], id |-> a.id]
    [] c.op \in {"compose.deploy", "compose.redeploy"} ->
         [remote |-> [R EXCEPT !.deploys =
                        Append(@, [op |-> c.op, app |-> 0, compose |-> a.id,
                                   title |-> a.title])],
          id |-> a.id]
    [] c.op = "domain.create" ->
         [remote |-> [R EXCEPT !.domains =
                        Append(@, [host |-> a.host, port |-> a.port,
                                   app |-> IF a.service = "" THEN a.id ELSE 0,
                                   compose |-> IF a.service = "" THEN 0 ELSE a.id,
                                   service |-> a.service])],
          id |-> Len(R.domains) + 1]
    [] OTHER -> [remote |-> R, id |-> 0]

\* The live entries of a collection whose index is in keep, as id and name, in
\* the order the control plane lists them.
RECURSIVE Listing(_, _, _)
Listing(coll, keep, from) ==
  IF from > Len(coll) THEN << >>
  ELSE (IF coll[from].live /\ from \in keep
        THEN << [id |-> from, name |-> coll[from].name] >> ELSE << >>)
       \o Listing(coll, keep, from + 1)

\* The body of the answer to a read.
Read(R, c) ==
  CASE c.op = "project.all" ->
         [NoBody EXCEPT !.projects = Listing(R.projects, DOMAIN R.projects, 1)]
    [] c.op = "project.one" ->
         LET envs == R.projects[c.arg.id].environments IN
         [NoBody EXCEPT
            !.environments =
               [i \in 1..Len(envs) |->
                  [environmentId |-> envs[i],
                   applications |->
                     Listing(R.apps,
                             {k \in DOMAIN R.apps : R.apps[k].env = envs[i]}, 1)]],
            !.compose =
               Listing(R.composes,
                       {k \in DOMAIN R.composes :
                          \E i \in 1..Len(envs) : R.composes[k].env = envs[i]}, 1)]
    [] OTHER -> NoBody

\* ------------------------------------------------------------------------
\* The requests provisionApplication and provisionCompose build
\* ------------------------------------------------------------------------
fullDomainOf(subdomain) == subdomain \o "." \o DOMAIN_SUFFIX

CreateProjectCall(subdomain) ==
  Call("project.create", [NoArg EXCEPT !.name = "provisioner-" \o subdomain])

CreateApplicationCall(config, environmentId) ==
  Call("application.create", [NoArg EXCEPT !.name = config.name, !.id = environmentId])

PrebuiltProviderCall(appId, image) ==
  Call("application.saveDockerProvider",
       [NoArg EXCEPT !.id = appId, !.source = image.ref,
                     !.registry = IF image.tiniGhcr THEN GHCR_REGISTRY ELSE ""])

SourceTypeCall(appId) ==
  Call("application.update", [NoArg EXCEPT !.id = appId, !.sourceType = "git"])

gitUrlOf(config) ==
  IF getOrgConfig(config.owner) # NoOrg
  THEN "git@github.com:" \o config.owner \o "/" \o config.repo \o ".git"
  ELSE "https://github.com/" \o config.owner \o "/" \o config.repo \o ".git"

CustomGitProviderCall(config, appId) ==
  Call("application.saveGitProvider",
       [NoArg EXCEPT !.id = appId, !.source = gitUrlOf(config),
                     !.branch = config.branch,
                     !.buildPath = IF config.path = "" THEN "/" ELSE config.path,
                     !.sshKey = getOrgConfig(config.owner).sshKeyId])

DockerProviderCall(config, appId) ==
  Call("application.saveDockerProvider",
       [NoArg EXCEPT !.id = appId, !.source = config.image \o ":" \o config.tag])

BuildTypeCall(config, appId) ==
  Call("application.saveBuildType",
       [NoArg EXCEPT !.id = appId,
                     !.build = << config.buildType,
                                  IF config.dockerfile = "" THEN "Dockerfile"
                                                            ELSE config.dockerfile,
                                  IF config.context = "" THEN "." ELSE config.context,
                                  "" >>])

setResourceLimits(appId, size) ==
  Call("application.update",
       [NoArg EXCEPT !.id = appId, !.cpuLimit = QUOTAS[size].cpuLimit,
                     !.memoryLimit = QUOTAS[size].memoryLimit])

HasSecret(ref) == ref.secret \in DOMAIN SecretEnv /\ SecretEnv[ref.secret] # ""

\* envVars with a line for every secretRef, found or not
EnvVarsEveryRef(config) ==
  [i \in 1..Len(config.env) |-> config.env[i][1] \o "=" \o config.env[i][2]]
  \o [i \in 1..Len(config.secretRefs) |->
        config.secretRefs[i].name \o "="
          \o (IF HasSecret(config.secretRefs[i])
              THEN SecretEnv[config.secretRefs[i].secret] ELSE "")]

\* envVars: the static pairs, then the secretRefs found in the environment
EnvVars(config) ==
  LET found == SelectSeq(config.secretRefs, HasSecret) IN
  [i \in 1..Len(config.env) |-> config.env[i][1] \o "=" \o config.env[i][2]]
  \o [i \in 1..Len(found) |-> found[i].name \o "=" \o SecretEnv[found[i].secret]]

RECURSIVE Join(_)
Join(lines) ==
  IF Len(lines) = 0 THEN ""
  ELSE IF Len(lines) = 1 THEN lines[1]
  ELSE lines[1] \o "\n" \o Join(Tail(lines))

EnvironmentCall(config, appId) ==
  Call("application.saveEnvironment",
       [NoArg EXCEPT !.id = appId, !.env = Join(EnvVars(config))])

PortOf(config) ==
  IF Len(config.ports) > 0 /\ config.ports[1] # 0 THEN config.ports[1] ELSE DEFAULT_PORT

CreateDomainCall(config, subdomain, appId) ==
  Call("domain.create",
       [NoArg EXCEPT !.id = appId, !.host = fullDomainOf(subdomain),
                     !.port = PortOf(config)])

DeployApplicationCall(appId) ==
  Call("application.deploy", [NoArg EXCEPT !.id = appId, !.title = INITIAL_TITLE])

CreateComposeCall(config, environmentId) ==
  Call("compose.create", [NoArg EXCEPT !.name = config.name, !.id = environmentId])

ComposePath(config) == IF config.path = "" THEN "docker-compose.yaml" ELSE config.path

ComposeSourceCall(config, composeId) ==
  IF getOrgConfig(config.owner) # NoOrg
  THEN Call("compose.saveGitProvider",
            [NoArg EXCEPT !.id = composeId,
                          !.source = "git@github.com:" \o config.owner \o "/"
                                       \o config.repo \o ".git",
                          !.branch = config.branch, !.buildPath = ComposePath(config),
                          !.sshKey = getOrgConfig(config.owner).sshKeyId])
  ELSE Call("compose.saveGithubProvider",
            [NoArg EXCEPT !.id = composeId,
                          !.source = config.owner \o "/" \o config.repo,
                          !.branch = config.branch, !.buildPath = ComposePath(config)])

ComposeEnvironmentCall(config, composeId) ==
  Call("compose.saveEnvironment",
       [NoArg EXCEPT !.id = composeId, !.env = Join(EnvVars(config))])

ComposeDomainCall(config, subdomain, composeId) ==
  Call("domain.create",
       [NoArg EXCEPT !.id = composeId, !.host = fullDomainOf(subdomain),
                     !.port = config.ingressPort, !.service = config.ingressService])

DeployComposeCall(composeId) ==
  Call("compose.deploy", [NoArg EXCEPT !.id = composeId, !.title = INITIAL_TITLE])

\* ------------------------------------------------------------------------
\* ProvisionResult
\* ------------------------------------------------------------------------
NoResult ==
  [success |-> FALSE, appName |-> "", subdomain |-> "", applicationId |-> 0,
   composeId |-> 0, projectId |-> 0, domain |-> "", error |-> "",
   autoDeployConfigured |-> FALSE]

Failure(appName, subdomain, message) ==
  [NoResult EXCEPT !.appName = appName, !.subdomain = subdomain, !.error = message]

\* ------------------------------------------------------------------------
\* State
\* ------------------------------------------------------------------------
VARIABLES
  argv,      \* process.argv.slice(2): the paths to apply
  apiKey,    \* whether DOKPLOY_API_KEY is set
  prebuilt,  \* PREBUILT_IMAGES: prebuilt image per subdomain
  remote,    \* the control plane: projects, applications, composes, domains, deployments
  pc,        \* where the script stands: the call it awaits, "loop" or "exit"
  idx,       \* how many paths of argv the loop of main has taken up
  results,   \* results of main
  exitCode,  \* process exit status, read once pc is "exit"
  inflight,  \* the requests sent and not yet answered
  resp,      \* the answer to the awaited request
  cur,       \* project, environment and app of the running provision*
  calls,     \* the requests of the running provision*, each with the position
             \* in argv of its file and its outcome
  gh,        \* the gh commands of the running provision*
  before,    \* the control plane as it was when the running provision* began
  runs,      \* ComposeStack apply: the state of each invocation of the script
  overlap,   \* ComposeStack apply: whether two invocations ever ran at once
  lock,      \* ComposeStack apply: the apps of generated/compose.lock.json
  manifest,  \* validator: the manifest and the compose descriptor under validation
  verdict    \* validator: the result of validateFile and the policy's deny set

vars ==
  << argv, apiKey, prebuilt, remote, pc, idx, results, exitCode, inflight, resp,
     cur, calls, gh, before, runs, overlap, lock, manifest, verdict >>

inputs == << argv, apiKey, prebuilt >>

\* The state of the scripts other than scripts/apply.ts and cleanup.ts.
others == << runs, overlap, lock, manifest, verdict >>

NoImage == [sub |-> "", ref |-> "", tiniGhcr |-> FALSE]

\* prebuiltImages[subdomain]
PrebuiltOf(subdomain) ==
  IF \E i \in prebuilt : i.sub = subdomain
  THEN CHOOSE i \in prebuilt : i.sub = subdomain
  ELSE NoImage

NoCur == [project |-> 0, environment |-> 0, target |-> 0]

\* The path, the parsed file and the subdomain the loop is at.
FilePath == argv[idx]
Config == Disk[FilePath].config
Subdomain == getSubdomainFromPath(FilePath)

\* ------------------------------------------------------------------------
\* Awaiting a request
\* ------------------------------------------------------------------------
\* A request that is not awaited: the code after it runs at once.
NotAwaited == TRUE

\* `await`: the code after a request runs once the request has been answered.
Awaited == inflight = {}

\* Send the request and suspend at `at`.
Issue(file, c, at, log) ==
  /\ inflight' = inflight \cup {[file |-> file, call |-> c]}
  /\ calls' = Append(log, [file |-> file, call |-> c, outcome |-> "pending"])
  /\ resp' = NoResponse
  /\ pc' = at

Settle(log, outcome) ==
  IF Len(log) = 0 THEN log ELSE [log EXCEPT ![Len(log)].outcome = outcome]

\* DokployClient.request: the control plane carries the request out and
\* answers, or answers with an error status and request throws.
Respond ==
  \E r \in inflight :
    /\ inflight' = inflight \ {r}
    /\ \/ /\ Accepts(remote, r.call)
          /\ remote' = Serve(remote, r.call).remote
          /\ resp' = [ok |-> TRUE, id |-> Serve(remote, r.call).id, error |-> "",
                      body |-> Read(remote, r.call)]
          /\ calls' = Settle(calls, "ok")
       \/ /\ remote' = remote
          /\ resp' = [ok |-> FALSE, id |-> 0, error |-> API_ERROR, body |-> NoBody]
          /\ calls' = Settle(calls, "failed")
    /\ UNCHANGED << others, inputs, pc, idx, results, exitCode, cur, gh, before >>

\* ------------------------------------------------------------------------
\* main
\* ------------------------------------------------------------------------
Exit(code) ==
  /\ pc' = "exit"
  /\ exitCode' = code

\* main up to the connectivity check; createDokployClient throws without a key
\* and main().catch ends the process.
Main ==
  /\ pc = "start"
  /\ IF Len(argv) = 0 \/ ~apiKey
     THEN /\ Exit(1)
          /\ UNCHANGED << inflight, resp, calls >>
     ELSE /\ Issue(0, Call("project.all", NoArg), "healthCheck", << >>)
          /\ UNCHANGED exitCode
  /\ UNCHANGED << others, inputs, remote, idx, results, cur, gh, before >>

AfterHealthCheck ==
  /\ pc = "healthCheck"
  /\ Awaited
  /\ IF resp.ok
     THEN pc' = "loop" /\ UNCHANGED exitCode
     ELSE Exit(1)
  /\ UNCHANGED << others, inputs, remote, idx, results, inflight, resp, cur, calls, gh, before >>

\* The loop of main takes up the next path.
AtNextFile ==
  /\ pc = "loop"
  /\ idx < Len(argv)

NextPath == argv[idx + 1]

FileNotFound ==
  /\ AtNextFile
  /\ Disk[NextPath].state = "absent"
  /\ idx' = idx + 1
  /\ results' = Append(results,
                  Failure("unknown", getSubdomainFromPath(NextPath), "File not found"))
  /\ UNCHANGED << others, inputs, remote, pc, exitCode, inflight, resp, cur, calls, gh, before >>

\* readFileSync or parseYaml throws in applyFile, or provision* reads
\* config.metadata.name of a file without metadata before its try block: the
\* rejection leaves the loop and main().catch ends the process.
ApplyFileThrows ==
  /\ AtNextFile
  /\ \/ Disk[NextPath].state = "garbled"
     \/ /\ Disk[NextPath].state = "ok"
        /\ Disk[NextPath].config.kind \in {"Application", "ComposeStack"}
        /\ ~Disk[NextPath].config.hasMeta
  /\ idx' = idx + 1
  /\ Exit(1)
  /\ UNCHANGED << others, inputs, remote, results, inflight, resp, cur, calls, gh, before >>

UnknownKind ==
  /\ AtNextFile
  /\ Disk[NextPath].state = "ok"
  /\ Disk[NextPath].config.kind \notin {"Application", "ComposeStack"}
  /\ idx' = idx + 1
  /\ results' = Append(results,
                  Failure(IF Disk[NextPath].config.hasMeta
                             /\ Disk[NextPath].config.name # ""
                          THEN Disk[NextPath].config.name ELSE "unknown",
                          getSubdomainFromPath(NextPath),
                          "Unknown kind: " \o Disk[NextPath].config.kind))
  /\ UNCHANGED << others, inputs, remote, pc, exitCode, inflight, resp, cur, calls, gh, before >>

\* Summary and exit status.
Summary ==
  /\ pc = "loop"
  /\ idx = Len(argv)
  /\ Exit(IF \E i \in 1..Len(results) : ~results[i].success THEN 1 ELSE 0)
  /\ UNCHANGED << others, inputs, remote, idx, results, inflight, resp, cur, calls, gh, before >>

\* ------------------------------------------------------------------------
\* provisionApplication
\* ------------------------------------------------------------------------
\* return result: applyFile returns it and main pushes it
Return(result) ==
  /\ results' = Append(results, result)
  /\ pc' = "loop"

\* A catch block that compensates: it removes the project this run created.
CatchRollback(message) ==
  /\ Return(Failure(Config.name, Subdomain, message))
  /\ remote' = IF LiveProject(remote, cur.project)
               THEN [remote EXCEPT !.projects[cur.project].live = FALSE]
               ELSE remote

\* The catch block: the failed result; nothing is sent to the control plane.
Catch(message) ==
  /\ Return(Failure(Config.name, Subdomain, message))
  /\ remote' = remote

\* The awaited request threw: the rest of the try block is skipped.
Thrown ==
  /\ Catch(resp.error)
  /\ UNCHANGED << cur, inflight, resp, calls, gh >>

ProvisionApplication ==
  /\ AtNextFile
  /\ Disk[NextPath].state = "ok"
  /\ Disk[NextPath].config.kind = "Application"
  /\ Disk[NextPath].config.hasMeta
  /\ idx' = idx + 1
  /\ before' = remote
  /\ cur' = NoCur
  /\ gh' = << >>
  /\ Issue(idx + 1, CreateProjectCall(getSubdomainFromPath(NextPath)),
           "A:createProject", << >>)
  /\ UNCHANGED << others, inputs, remote, results, exitCode >>

ToDeploy(app) ==
  Issue(idx, DeployApplicationCall(app), "A:deployApplication", calls)

\* Going on without the domain step: the deployment is triggered at once.
ToDomainSkipped(app) == ToDeploy(app)

ToDomain(app) ==
  Issue(idx, CreateDomainCall(Config, Subdomain, app), "A:createDomain", calls)

ToEnvironment(app) ==
  IF Config.hasEnv /\ Len(EnvVars(Config)) > 0
  THEN Issue(idx, EnvironmentCall(Config, app), "A:configureEnvironment", calls)
  ELSE ToDomain(app)

ToLimits(app) ==
  Issue(idx, setResourceLimits(app, Config.size), "A:setResourceLimits", calls)

ToBuild(app) ==
  IF Config.hasBuild /\ PrebuiltOf(Subdomain) = NoImage
  THEN Issue(idx, BuildTypeCall(Config, app), "A:configureBuildType", calls)
  ELSE ToLimits(app)

ToSource(app) ==
  IF PrebuiltOf(Subdomain) # NoImage
  THEN Issue(idx, PrebuiltProviderCall(app, PrebuiltOf(Subdomain)),
             "A:configureDockerProvider", calls)
  ELSE IF Config.src = "github"
  THEN Issue(idx, SourceTypeCall(app), "A:updateApplication", calls)
  ELSE IF Config.src = "docker"
  THEN Issue(idx, DockerProviderCall(Config, app), "A:configureDockerProvider", calls)
  ELSE ToBuild(app)

AfterCreateProject ==
  /\ pc = "A:createProject"
  /\ Awaited
  /\ IF resp.ok
     THEN /\ cur' = [project |-> resp.id, environment |-> resp.id, target |-> 0]
          /\ Issue(idx, CreateApplicationCall(Config, resp.id),
                   "A:createApplication", calls)
          /\ UNCHANGED << results, remote, gh >>
     ELSE Thrown
  /\ UNCHANGED << others, inputs, idx, exitCode, before >>

AfterCreateApplication ==
  /\ pc = "A:createApplication"
  /\ Awaited
  /\ IF resp.ok
     THEN /\ cur' = [cur EXCEPT !.target = resp.id]
          /\ ToSource(resp.id)
          /\ UNCHANGED << results, remote, gh >>
     ELSE Thrown
  /\ UNCHANGED << others, inputs, idx, exitCode, before >>

AfterConfigureDockerProvider ==
  /\ pc = "A:configureDockerProvider"
  /\ Awaited
  /\ IF resp.ok
     THEN ToBuild(cur.target) /\ UNCHANGED << cur, results, remote, gh >>
     ELSE Thrown
  /\ UNCHANGED << others, inputs, idx, exitCode, before >>

AfterUpdateApplication ==
  /\ pc = "A:updateApplication"
  /\ Awaited
  /\ IF ~resp.ok THEN Thrown
     ELSE IF Config.owner = ""
     THEN Catch(TYPE_ERROR) /\ UNCHANGED << cur, inflight, resp, calls, gh >>
     ELSE /\ Issue(idx, CustomGitProviderCall(Config, cur.target),
                   "A:configureCustomGitProvider", calls)
          /\ UNCHANGED << cur, results, remote, gh >>
  /\ UNCHANGED << others, inputs, idx, exitCode, before >>

AfterConfigureCustomGitProvider ==
  /\ pc = "A:configureCustomGitProvider"
  /\ Awaited
  /\ IF resp.ok
     THEN ToBuild(cur.target) /\ UNCHANGED << cur, results, remote, gh >>
     ELSE Thrown
  /\ UNCHANGED << others, inputs, idx, exitCode, before >>

AfterConfigureBuildType ==
  /\ pc = "A:configureBuildType"
  /\ Awaited
  /\ IF resp.ok
     THEN ToLimits(cur.target) /\ UNCHANGED << cur, results, remote, gh >>
     ELSE Thrown
  /\ UNCHANGED << others, inputs, idx, exitCode, before >>

AfterSetResourceLimits ==
  /\ pc = "A:setResourceLimits"
  /\ Awaited
  /\ IF resp.ok
     THEN ToEnvironment(cur.target) /\ UNCHANGED << cur, results, remote, gh >>
     ELSE Thrown
  /\ UNCHANGED << others, inputs, idx, exitCode, before >>

AfterConfigureEnvironment ==
  /\ pc = "A:configureEnvironment"
  /\ Awaited
  /\ IF resp.ok
     THEN ToDomain(cur.target) /\ UNCHANGED << cur, results, remote, gh >>
     ELSE Thrown
  /\ UNCHANGED << others, inputs, idx, exitCode, before >>

AfterCreateDomain ==
  /\ pc = "A:createDomain"
  /\ Awaited
  /\ IF resp.ok
     THEN ToDeploy(cur.target) /\ UNCHANGED << cur, results, remote, gh >>
     ELSE Thrown
  /\ UNCHANGED << others, inputs, idx, exitCode, before >>

\* What the gh commands of the auto-deploy helper answer: whether the secret is
\* listed, whether setting it succeeds, whether writing the workflow succeeds.
GhOutcomes == [listed : BOOLEAN, setOk : BOOLEAN, putOk : BOOLEAN]

ensureDeploySecret(owner, o) ==
  canSetupAutoDeploy(owner) /\ (o.listed \/ (apiKey /\ o.setOk))

setupAutoDeploy(owner, id, o) ==
  canSetupAutoDeploy(owner) /\ id # 0 /\ o.putOk

\* The gh commands the two helpers run, in order.
GhCommands(owner, id, o) ==
  IF ~canSetupAutoDeploy(owner) THEN << >>
  ELSE << "secret list" >>
       \o (IF ~o.listed /\ apiKey THEN << "secret set" >> ELSE << >>)
       \o (IF ensureDeploySecret(owner, o) /\ id # 0
           THEN << "contents get", "contents put" >> ELSE << >>)

Success(o) ==
  [NoResult EXCEPT !.success = TRUE, !.appName = Config.name, !.subdomain = Subdomain,
                   !.applicationId = cur.target, !.projectId = cur.project,
                   !.autoDeployConfigured =
                      /\ Config.src = "github"
                      /\ ensureDeploySecret(Config.owner, o)
                      /\ setupAutoDeploy(Config.owner, cur.target, o),
                   !.domain = "https://" \o fullDomainOf(Subdomain)]

\* After the deployment was triggered: auto-deploy for github sources, then the
\* successful result.
AfterDeployApplication ==
  /\ pc = "A:deployApplication"
  /\ Awaited
  /\ IF ~resp.ok THEN Thrown
     ELSE IF Config.src = "github" /\ Config.owner = ""
     THEN Catch(TYPE_ERROR) /\ UNCHANGED << cur, inflight, resp, calls, gh >>
     ELSE /\ \E o \in GhOutcomes :
               /\ gh' = IF Config.src = "github"
                        THEN GhCommands(Config.owner, cur.target, o) ELSE << >>
               /\ Return(Success(o))
          /\ UNCHANGED << cur, inflight, resp, calls, remote >>
  /\ UNCHANGED << others, inputs, idx, exitCode, before >>

\* ------------------------------------------------------------------------
\* provisionCompose
\* ------------------------------------------------------------------------
ProvisionCompose ==
  /\ AtNextFile
  /\ Disk[NextPath].state = "ok"
  /\ Disk[NextPath].config.kind = "ComposeStack"
  /\ Disk[NextPath].config.hasMeta
  /\ idx' = idx + 1
  /\ before' = remote
  /\ cur' = NoCur
  /\ gh' = << >>
  /\ Issue(idx + 1, CreateProjectCall(getSubdomainFromPath(NextPath)),
           "C:createProject", << >>)
  /\ UNCHANGED << others, inputs, remote, results, exitCode >>

ToComposeDomain(compose) ==
  Issue(idx, ComposeDomainCall(Config, Subdomain, compose), "C:createDomain", calls)

ToComposeEnvironment(compose) ==
  IF Config.hasEnv /\ Len(EnvVars(Config)) > 0
  THEN Issue(idx, ComposeEnvironmentCall(Config, compose),
             "C:configureComposeEnvironment", calls)
  ELSE ToComposeDomain(compose)

ToComposeSource(compose) ==
  IF Config.src = "github"
  THEN Issue(idx, ComposeSourceCall(Config, compose), "C:configureSource", calls)
  ELSE ToComposeEnvironment(compose)

ComposeAfterCreateProject ==
  /\ pc = "C:createProject"
  /\ Awaited
  /\ IF resp.ok
     THEN /\ cur' = [project |-> resp.id, environment |-> resp.id, target |-> 0]
          /\ Issue(idx, CreateComposeCall(Config, resp.id), "C:createCompose", calls)
          /\ UNCHANGED << results, remote, gh >>
     ELSE Thrown
  /\ UNCHANGED << others, inputs, idx, exitCode, before >>

AfterCreateCompose ==
  /\ pc = "C:createCompose"
  /\ Awaited
  /\ IF ~resp.ok THEN Thrown
     ELSE IF Config.src = "github" /\ Config.owner = ""
     THEN Catch(TYPE_ERROR) /\ UNCHANGED << cur, inflight, resp, calls, gh >>
     ELSE /\ cur' = [cur EXCEPT !.target = resp.id]
          /\ ToComposeSource(resp.id)
          /\ UNCHANGED << results, remote, gh >>
  /\ UNCHANGED << others, inputs, idx, exitCode, before >>

AfterConfigureComposeSource ==
  /\ pc = "C:configureSource"
  /\ Awaited
  /\ IF resp.ok
     THEN ToComposeEnvironment(cur.target) /\ UNCHANGED << cur, results, remote, gh >>
     ELSE Thrown
  /\ UNCHANGED << others, inputs, idx, exitCode, before >>

AfterConfigureComposeEnvironment ==
  /\ pc = "C:configureComposeEnvironment"
  /\ Awaited
  /\ IF resp.ok
     THEN ToComposeDomain(cur.target) /\ UNCHANGED << cur, results, remote, gh >>
     ELSE Thrown
  /\ UNCHANGED << others, inputs, idx, exitCode, before >>

ComposeAfterCreateDomain ==
  /\ pc = "C:createDomain"
  /\ Awaited
  /\ IF resp.ok
     THEN /\ Issue(idx, DeployComposeCall(cur.target), "C:deployCompose", calls)
          /\ UNCHANGED << cur, results, remote, gh >>
     ELSE Thrown
  /\ UNCHANGED << others, inputs, idx, exitCode, before >>

ComposeSuccess(o) ==
  [NoResult EXCEPT !.success = TRUE, !.appName = Config.name, !.subdomain = Subdomain,
                   !.composeId = cur.target, !.projectId = cur.project,
                   !.autoDeployConfigured =
                      /\ Config.src = "github"
                      /\ ensureDeploySecret(Config.owner, o)
                      /\ setupAutoDeploy(Config.owner, cur.target, o),
                   !.domain = "https://" \o fullDomainOf(Subdomain)]

AfterDeployCompose ==
  /\ pc = "C:deployCompose"
  /\ Awaited
  /\ IF resp.ok
     THEN /\ \E o \in GhOutcomes :
               /\ gh' = IF Config.src = "github"
                        THEN GhCommands(Config.owner, cur.target, o) ELSE << >>
               /\ Return(ComposeSuccess(o))
          /\ UNCHANGED << cur, inflight, resp, calls, remote >>
     ELSE Thrown
  /\ UNCHANGED << others, inputs, idx, exitCode, before >>

\* ------------------------------------------------------------------------
\* Specification
\* ------------------------------------------------------------------------
\* The control plane outlives the process: an invocation starts against what
\* earlier invocations left there, here MaxPrior or fewer completed applies of
\* the demo manifest.
Provisioned(R) ==
  LET p == Serve(R, CreateProjectCall(getSubdomainFromPath("demo")))
      a == Serve(p.remote, CreateApplicationCall(DemoConfig, p.id))
      s == Serve(a.remote, DockerProviderCall(DemoConfig, a.id)).remote
      l == Serve(s, setResourceLimits(a.id, DemoConfig.size)).remote
      d == Serve(l, CreateDomainCall(DemoConfig, getSubdomainFromPath("demo"), a.id)).remote
  IN  Serve(d, DeployApplicationCall(a.id)).remote

RECURSIVE Prior(_)
Prior(k) == IF k = 0 THEN EmptyRemote ELSE Provisioned(Prior(k - 1))

ArgLists == UNION { [1..n -> Files] : n \in 0..MaxFiles }

PrebuiltChoices ==
  { {}, {[sub |-> "demo", ref |-> "ghcr.io/tini-works/demo:sha", tiniGhcr |-> TRUE],
         [sub |-> "wiki", ref |-> "registry.example.com/wiki:sha", tiniGhcr |-> FALSE]} }

Init ==
  /\ argv \in ArgLists
  /\ apiKey \in BOOLEAN
  /\ prebuilt \in PrebuiltChoices
  /\ remote \in { Prior(k) : k \in 0..MaxPrior }
  /\ before = remote
  /\ pc = "start"
  /\ idx = 0
  /\ results = << >>
  /\ exitCode = 0
  /\ inflight = {}
  /\ resp = NoResponse
  /\ cur = NoCur
  /\ calls = << >>
  /\ gh = << >>
  /\ runs = << >>
  /\ overlap = FALSE
  /\ lock = {}
  /\ manifest = << >>
  /\ verdict = << >>

Next ==
  \/ Respond
  \/ Main
  \/ AfterHealthCheck
  \/ FileNotFound
  \/ ApplyFileThrows
  \/ UnknownKind
  \/ Summary
  \/ ProvisionApplication
  \/ AfterCreateProject
  \/ AfterCreateApplication
  \/ AfterConfigureDockerProvider
  \/ AfterUpdateApplication
  \/ AfterConfigureCustomGitProvider
  \/ AfterConfigureBuildType
  \/ AfterSetResourceLimits
  \/ AfterConfigureEnvironment
  \/ AfterCreateDomain
  \/ AfterDeployApplication
  \/ ProvisionCompose
  \/ ComposeAfterCreateProject
  \/ AfterCreateCompose
  \/ AfterConfigureComposeSource
  \/ AfterConfigureComposeEnvironment
  \/ ComposeAfterCreateDomain
  \/ AfterDeployCompose

Spec == Init /\ [][Next]_vars

\* An invocation with one file, over every manifest.
ProvisionInit ==
  /\ argv \in { << f >> : f \in DOMAIN Disk }
  /\ apiKey \in BOOLEAN
  /\ prebuilt \in PrebuiltChoices
  /\ remote \in { Prior(k) : k \in 0..MaxPrior }
  /\ before = remote
  /\ pc = "start"
  /\ idx = 0
  /\ results = << >>
  /\ exitCode = 0
  /\ inflight = {}
  /\ resp = NoResponse
  /\ cur = NoCur
  /\ calls = << >>
  /\ gh = << >>
  /\ runs = << >>
  /\ overlap = FALSE
  /\ lock = {}
  /\ manifest = << >>
  /\ verdict = << >>

SpecProvision == ProvisionInit /\ [][Next]_vars

\* ------------------------------------------------------------------------
\* The ComposeStack apply script: main, ensureProject, ensureCompose
\* ------------------------------------------------------------------------
\* invocations of the script against one control plane, numbered in the order
\* in which they start
MaxRuns == 2

Runs == 1..MaxRuns

PROJECT_NAME == "provisioner"

COMPOSE_NAME == "provisioner"

OUT_PATH == "generated/docker-compose.yaml"

\* PROVISIONER_REPO_OWNER, PROVISIONER_REPO_NAME, PROVISIONER_REPO_BRANCH
RepoEnv == [owner |-> "tini-works", name |-> "provisioner", branch |-> ""]

\* What apps/ can hold when the script runs: nothing, or the blog manifest,
\* whose secretRef binds DATABASE_URL.
AppsRoots == { {}, {"blog"} }

\* bundle.secretBindings, and the env lines of the bindings found in SECRET_*
SecretBindings(apps) ==
  IF "blog" \in apps THEN << [name |-> "DATABASE_URL", secret |-> "DATABASE_URL"] >>
  ELSE << >>

EnvLines(apps) ==
  LET found == SelectSeq(SecretBindings(apps), HasSecret) IN
  [i \in 1..Len(found) |-> found[i].name \o "=" \o SecretEnv[found[i].secret]]

NoRun ==
  [pc |-> "idle", resp |-> NoResponse, allowRemovals |-> FALSE, apps |-> {},
   projectId |-> 0, environmentId |-> 0, composeId |-> 0, isNew |-> FALSE,
   refused |-> FALSE, exitCode |-> 0]

\* The compose file at OUT_PATH, as the apps of the bundle written last: none
\* before the first run.
NoFile == [apps |-> {}]

\* The id of the first entry of that name in a listing, 0 when there is none.
FirstNamed(listing, name) ==
  IF \E i \in 1..Len(listing) : listing[i].name = name
  THEN listing[CHOOSE i \in 1..Len(listing) :
                 /\ listing[i].name = name
                 /\ \A j \in 1..(i - 1) : listing[j].name # name].id
  ELSE 0

\* client.findProjectByName, on the answer of the project listing
findProjectByName(projects, name) == FirstNamed(projects, name)

Active(r) == runs[r].pc \notin {"idle", "exit"}

offStack ==
  << argv, prebuilt, pc, idx, results, exitCode, inflight, resp, cur, calls, gh,
     before, manifest, verdict >>

\* An awaited request of invocation r, with DokployClient.request: the control
\* plane carries the request out and answers, or answers with an error status.
\* The invocation resumes at `at`. The request and its answer are one step: the
\* code between two requests touches nothing the invocations share but the
\* lock file, which it reads before the first request and writes after the last.
StackIssue(r, rec, c, at) ==
  \/ /\ Accepts(remote, c)
     /\ remote' = Serve(remote, c).remote
     /\ runs' = [runs EXCEPT ![r] =
                   [rec EXCEPT !.pc = at,
                               !.resp = [ok |-> TRUE, id |-> Serve(remote, c).id,
                                         error |-> "", body |-> Read(remote, c)]]]
  \/ /\ remote' = remote
     /\ runs' = [runs EXCEPT ![r] =
                   [rec EXCEPT !.pc = at,
                               !.resp = [ok |-> FALSE, id |-> 0, error |-> API_ERROR,
                                         body |-> NoBody]]]

\* process.exit, also through main().catch when an awaited request threw; the
\* locals of the invocation end with it.
StackExit(r, code) ==
  /\ runs' = [runs EXCEPT ![r] = [NoRun EXCEPT !.pc = "exit", !.exitCode = code]]
  /\ remote' = remote

StackAwaited(r, at) == runs[r].pc = at

\* A main that goes on with removed apps whether or not --allow-removals is
\* given.
StackMainNeverRefuses(r) ==
  /\ runs[r].pc = "idle"
  /\ \A o \in 1..(r - 1) : runs[o].pc # "idle"
  /\ \E apps \in AppsRoots, allowRemovals \in BOOLEAN :
       LET rec == [runs[r] EXCEPT !.apps = apps,
                                  !.allowRemovals = (lock \ apps # {} /\ allowRemovals)]
       IN  /\ manifest' = [apps |-> apps]
           /\ IF ~apiKey
              THEN StackExit(r, 1)
              ELSE StackIssue(r, rec, Call("project.all", NoArg), "healthCheck")
  /\ overlap' = (overlap \/ \E o \in Runs \ {r} : Active(o))
  /\ UNCHANGED << apiKey, lock, argv, prebuilt, pc, idx, results, exitCode, inflight,
                  resp, cur, calls, gh, before, verdict >>

\* main up to the connectivity check: the bundle of apps/, the removed apps
\* and the refusal to remove them without --allow-removals (refused stands
\* for the message on stderr), the compose file, the client, which throws
\* without an API key. allowRemovals is read only when apps were removed, and
\* the record of the invocation holds it only then.
StackMain(r) ==
  /\ runs[r].pc = "idle"
  /\ \A o \in 1..(r - 1) : runs[o].pc # "idle"
  /\ \E apps \in AppsRoots, allowRemovals \in BOOLEAN :
       LET removedApps == lock \ apps
           rec == [runs[r] EXCEPT !.apps = apps,
                                  !.allowRemovals = (removedApps # {} /\ allowRemovals)]
       IN  IF removedApps # {} /\ ~allowRemovals
           THEN /\ runs' = [runs EXCEPT ![r] = [NoRun EXCEPT !.pc = "exit", !.exitCode = 1,
                                                             !.refused = TRUE]]
                /\ remote' = remote
                /\ manifest' = manifest
           ELSE /\ manifest' = [apps |-> apps]
                /\ IF ~apiKey
                   THEN StackExit(r, 1)
                   ELSE StackIssue(r, rec, Call("project.all", NoArg), "healthCheck")
  /\ overlap' = (overlap \/ \E o \in Runs \ {r} : Active(o))
  /\ UNCHANGED << apiKey, lock, argv, prebuilt, pc, idx, results, exitCode, inflight,
                  resp, cur, calls, gh, before, verdict >>

\* ensureProject begins: the lookup by name. allowRemovals is not read after
\* the check of the removed apps, and the record of the invocation drops it.
StackAfterHealthCheck(r) ==
  /\ StackAwaited(r, "healthCheck")
  /\ IF runs[r].resp.ok
     THEN StackIssue(r, [runs[r] EXCEPT !.allowRemovals = FALSE],
                     Call("project.all", NoArg), "findProjectByName")
     ELSE StackExit(r, 1)
  /\ UNCHANGED << apiKey, overlap, lock, offStack >>

StackGetProject(r, rec, at) ==
  StackIssue(r, rec, Call("project.one", [NoArg EXCEPT !.id = rec.projectId]), at)

\* An ensureProject that creates the project whatever the lookup answered.
EnsureProjectAlwaysCreates(r) ==
  /\ StackAwaited(r, "findProjectByName")
  /\ IF ~runs[r].resp.ok THEN StackExit(r, 1)
     ELSE StackIssue(r, runs[r],
                     Call("project.create", [NoArg EXCEPT !.name = PROJECT_NAME]),
                     "createProject")
  /\ UNCHANGED << apiKey, overlap, lock, offStack >>

\* ensureProject after the lookup: the details of the project found, or
\* createProject
EnsureProject(r) ==
  /\ StackAwaited(r, "findProjectByName")
  /\ IF ~runs[r].resp.ok THEN StackExit(r, 1)
     ELSE LET existing == findProjectByName(runs[r].resp.body.projects, PROJECT_NAME) IN
          IF existing # 0
          THEN StackGetProject(r, [runs[r] EXCEPT !.projectId = existing], "getProject")
          ELSE StackIssue(r, runs[r],
                          Call("project.create", [NoArg EXCEPT !.name = PROJECT_NAME]),
                          "createProject")
  /\ UNCHANGED << apiKey, overlap, lock, offStack >>

\* ensureProject returns the project found with its first environment and
\* ensureCompose begins; without an environment ensureProject throws.
EnsureProjectFound(r) ==
  /\ StackAwaited(r, "getProject")
  /\ IF ~runs[r].resp.ok \/ Len(runs[r].resp.body.environments) = 0
     THEN StackExit(r, 1)
     ELSE StackGetProject(r, [runs[r] EXCEPT !.environmentId =
                                   runs[r].resp.body.environments[1].environmentId],
                          "ensureCompose")
  /\ UNCHANGED << apiKey, overlap, lock, offStack >>

\* ensureProject returns the project created and ensureCompose begins.
EnsureProjectCreated(r) ==
  /\ StackAwaited(r, "createProject")
  /\ IF ~runs[r].resp.ok THEN StackExit(r, 1)
     ELSE StackGetProject(r, [runs[r] EXCEPT !.projectId = runs[r].resp.id,
                                             !.environmentId = runs[r].resp.id],
                          "ensureCompose")
  /\ UNCHANGED << apiKey, overlap, lock, offStack >>

ComposeGitHubProviderCall(composeId) ==
  Call("compose.saveGithubProvider",
       [NoArg EXCEPT !.id = composeId,
                     !.source = RepoEnv.owner \o "/" \o RepoEnv.name,
                     !.branch = IF RepoEnv.branch = "" THEN "main" ELSE RepoEnv.branch,
                     !.buildPath = OUT_PATH])

\* main after ensureCompose: the repository variables, then the provider
StackToProvider(r, rec) ==
  IF RepoEnv.owner = "" \/ RepoEnv.name = ""
  THEN StackExit(r, 1)
  ELSE StackIssue(r, rec, ComposeGitHubProviderCall(rec.composeId), "configureProvider")

\* An ensureCompose that creates the compose whatever the project holds.
EnsureComposeAlwaysCreates(r) ==
  /\ StackAwaited(r, "ensureCompose")
  /\ IF ~runs[r].resp.ok THEN StackExit(r, 1)
     ELSE StackIssue(r, runs[r],
                     Call("compose.create",
                          [NoArg EXCEPT !.name = COMPOSE_NAME,
                                        !.id = runs[r].environmentId]),
                     "createCompose")
  /\ UNCHANGED << apiKey, overlap, lock, offStack >>

\* ensureCompose after the project details: the compose found, or createCompose
EnsureCompose(r) ==
  /\ StackAwaited(r, "ensureCompose")
  /\ IF ~runs[r].resp.ok THEN StackExit(r, 1)
     ELSE LET existingCompose == FirstNamed(runs[r].resp.body.compose, COMPOSE_NAME) IN
          IF existingCompose # 0
          THEN StackToProvider(r, [runs[r] EXCEPT !.composeId = existingCompose,
                                                  !.isNew = FALSE])
          ELSE StackIssue(r, runs[r],
                          Call("compose.create",
                               [NoArg EXCEPT !.name = COMPOSE_NAME,
                                             !.id = runs[r].environmentId]),
                          "createCompose")
  /\ UNCHANGED << apiKey, overlap, lock, offStack >>

EnsureComposeCreated(r) ==
  /\ StackAwaited(r, "createCompose")
  /\ IF ~runs[r].resp.ok THEN StackExit(r, 1)
     ELSE StackToProvider(r, [runs[r] EXCEPT !.composeId = runs[r].resp.id,
                                             !.isNew = TRUE])
  /\ UNCHANGED << apiKey, overlap, lock, offStack >>

\* deployCompose for a compose this run created, redeployCompose otherwise
StackToDeploy(r) ==
  StackIssue(r, runs[r],
             IF runs[r].isNew
             THEN Call("compose.deploy", [NoArg EXCEPT !.id = runs[r].composeId,
                                                       !.title = INITIAL_TITLE])
             ELSE Call("compose.redeploy", [NoArg EXCEPT !.id = runs[r].composeId]),
             "deploy")

StackAfterConfigureProvider(r) ==
  /\ StackAwaited(r, "configureProvider")
  /\ IF ~runs[r].resp.ok THEN StackExit(r, 1)
     ELSE IF Len(EnvLines(runs[r].apps)) > 0
     THEN StackIssue(r, runs[r],
                     Call("compose.saveEnvironment",
                          [NoArg EXCEPT !.id = runs[r].composeId,
                                        !.env = Join(EnvLines(runs[r].apps))]),
                     "configureEnvironment")
     ELSE StackToDeploy(r)
  /\ UNCHANGED << apiKey, overlap, lock, offStack >>

StackAfterConfigureEnvironment(r) ==
  /\ StackAwaited(r, "configureEnvironment")
  /\ IF ~runs[r].resp.ok THEN StackExit(r, 1) ELSE StackToDeploy(r)
  /\ UNCHANGED << apiKey, overlap, lock, offStack >>

\* A main that saves the lock file whether or not the deployment was accepted.
StackAfterDeployAlwaysSaves(r) ==
  /\ StackAwaited(r, "deploy")
  /\ StackExit(r, IF runs[r].resp.ok THEN 0 ELSE 1)
  /\ lock' = runs[r].apps
  /\ UNCHANGED << apiKey, overlap, offStack >>

\* After the deployment was triggered: saveLock and exit.
StackAfterDeploy(r) ==
  /\ StackAwaited(r, "deploy")
  /\ IF ~runs[r].resp.ok
     THEN StackExit(r, 1) /\ UNCHANGED lock
     ELSE StackExit(r, 0) /\ lock' = runs[r].apps
  /\ UNCHANGED << apiKey, overlap, offStack >>

\* A project named provisioner whose environment was deleted by hand.
Orphaned ==
  [EmptyRemote EXCEPT !.projects =
     << [name |-> PROJECT_NAME, live |-> TRUE, environments |-> << >>] >>]

StackInit ==
  /\ remote \in {EmptyRemote, Orphaned}
  /\ runs = [r \in Runs |-> NoRun]
  /\ overlap = FALSE
  /\ lock = {}
  /\ apiKey \in BOOLEAN
  /\ argv = << >>
  /\ prebuilt = {}
  /\ pc = "exit"
  /\ idx = 0
  /\ results = << >>
  /\ exitCode = 0
  /\ inflight = {}
  /\ resp = NoResponse
  /\ cur = NoCur
  /\ calls = << >>
  /\ gh = << >>
  /\ before = remote
  /\ manifest = NoFile
  /\ verdict = << >>

StackNext ==
  \E r \in Runs :
    \/ StackMain(r)
    \/ StackAfterHealthCheck(r)
    \/ EnsureProject(r)
    \/ EnsureProjectFound(r)
    \/ EnsureProjectCreated(r)
    \/ EnsureCompose(r)
    \/ EnsureComposeCreated(r)
    \/ StackAfterConfigureProvider(r)
    \/ StackAfterConfigureEnvironment(r)
    \/ StackAfterDeploy(r)

SpecStack == StackInit /\ [][StackNext]_vars

\* ------------------------------------------------------------------------
\* The cleanup script: main, cleanupFile, cleanupApp
\* ------------------------------------------------------------------------
\* CleanupResult
NoCleanup == [success |-> FALSE, appName |-> "", applicationId |-> 0, error |-> ""]

\* cleanupFile: metadata.name of the deleted manifest, the subdomain of the
\* path when the file cannot be read or parsed or carries no name.
AppNameOf(filePath) ==
  IF Disk[filePath].state = "ok" /\ Disk[filePath].config.hasMeta
     /\ Disk[filePath].config.name # ""
  THEN Disk[filePath].config.name
  ELSE getSubdomainFromPath(filePath)

\* A find that takes the first application listed, whatever its name.
FindFirst(applications, appName) ==
  IF Len(applications) = 0 THEN 0 ELSE applications[1].id

\* allApps.find((a) => a.name === appName)
FindApp(applications, appName) == FirstNamed(applications, appName)

\* The control plane with the shared project and applications of these names
\* in its environment.
RECURSIVE Shared(_)
Shared(names) ==
  IF Len(names) = 0
  THEN Serve(EmptyRemote, Call("project.create", [NoArg EXCEPT !.name = PROJECT_NAME])).remote
  ELSE Serve(Shared(SubSeq(names, 1, Len(names) - 1)),
             Call("application.create",
                  [NoArg EXCEPT !.name = names[Len(names)], !.id = 1])).remote

\* What the cleanup script can meet on the control plane.
SharedStates ==
  {EmptyRemote, Orphaned}
  \cup { Shared(n) : n \in { << >>, <<"demo">>, <<"demo", "demo">>,
                             <<"shop", "demo">>, <<"demo", "shop">> } }

CleanupMain ==
  /\ pc = "K:start"
  /\ IF Len(argv) = 0 \/ ~apiKey
     THEN /\ Exit(1)
          /\ UNCHANGED << inflight, resp, calls >>
     ELSE /\ Issue(0, Call("project.all", NoArg), "K:healthCheck", << >>)
          /\ UNCHANGED exitCode
  /\ UNCHANGED << others, inputs, remote, idx, results, cur, gh, before >>

CleanupAfterHealthCheck ==
  /\ pc = "K:healthCheck"
  /\ Awaited
  /\ IF resp.ok
     THEN pc' = "K:loop" /\ UNCHANGED exitCode
     ELSE Exit(1)
  /\ UNCHANGED << others, inputs, remote, idx, results, inflight, resp, cur, calls, gh,
                  before >>

\* The loop takes up the next path: cleanupFile, and cleanupApp up to the
\* lookup of the shared project.
CleanupFile ==
  /\ pc = "K:loop"
  /\ idx < Len(argv)
  /\ idx' = idx + 1
  /\ before' = remote
  /\ cur' = NoCur
  /\ Issue(idx + 1, Call("project.all", NoArg), "K:findProjectByName", << >>)
  /\ UNCHANGED << others, inputs, remote, results, exitCode, gh >>

CleanupReturn(result) ==
  /\ results' = Append(results, [result EXCEPT !.appName = AppNameOf(FilePath)])
  /\ pc' = "K:loop"
  /\ UNCHANGED << cur, inflight, resp, calls >>

\* the catch block of cleanupApp
CleanupCatch == CleanupReturn([NoCleanup EXCEPT !.error = resp.error])

CleanupDone == CleanupReturn([NoCleanup EXCEPT !.success = TRUE])

\* cleanupApp after the lookup of the project
CleanupProject ==
  /\ pc = "K:findProjectByName"
  /\ Awaited
  /\ IF ~resp.ok THEN CleanupCatch
     ELSE LET project == findProjectByName(resp.body.projects, PROJECT_NAME) IN
          IF project = 0 THEN CleanupDone
          ELSE /\ cur' = [cur EXCEPT !.project = project]
               /\ Issue(idx, Call("project.one", [NoArg EXCEPT !.id = project]),
                        "K:getProject", calls)
               /\ UNCHANGED results
  /\ UNCHANGED << others, inputs, remote, idx, exitCode, gh, before >>

\* cleanupApp after the project details: the application of that name in the
\* first environment, and its deletion
CleanupApp ==
  /\ pc = "K:getProject"
  /\ Awaited
  /\ IF ~resp.ok THEN CleanupCatch
     ELSE IF Len(resp.body.environments) = 0 THEN CleanupDone
     ELSE LET app == FindApp(resp.body.environments[1].applications,
                             AppNameOf(FilePath)) IN
          IF app = 0 THEN CleanupDone
          ELSE /\ cur' = [cur EXCEPT !.target = app]
               /\ Issue(idx, Call("application.delete", [NoArg EXCEPT !.id = app]),
                        "K:deleteApplication", calls)
               /\ UNCHANGED results
  /\ UNCHANGED << others, inputs, remote, idx, exitCode, gh, before >>

CleanupAfterDelete ==
  /\ pc = "K:deleteApplication"
  /\ Awaited
  /\ IF resp.ok
     THEN CleanupReturn([NoCleanup EXCEPT !.success = TRUE, !.applicationId = cur.target])
     ELSE CleanupCatch
  /\ UNCHANGED << others, inputs, remote, idx, exitCode, gh, before >>

CleanupSummary ==
  /\ pc = "K:loop"
  /\ idx = Len(argv)
  /\ Exit(IF \E i \in 1..Len(results) : ~results[i].success THEN 1 ELSE 0)
  /\ UNCHANGED << others, inputs, remote, idx, results, inflight, resp, cur, calls, gh,
                  before >>

CleanupInit ==
  /\ argv \in ArgLists
  /\ apiKey \in BOOLEAN
  /\ prebuilt = {}
  /\ remote \in SharedStates
  /\ before = remote
  /\ pc = "K:start"
  /\ idx = 0
  /\ results = << >>
  /\ exitCode = 0
  /\ inflight = {}
  /\ resp = NoResponse
  /\ cur = NoCur
  /\ calls = << >>
  /\ gh = << >>
  /\ runs = << >>
  /\ overlap = FALSE
  /\ lock = {}
  /\ manifest = << >>
  /\ verdict = << >>

CleanupNext ==
  \/ Respond
  \/ CleanupMain
  \/ CleanupAfterHealthCheck
  \/ CleanupFile
  \/ CleanupProject
  \/ CleanupApp
  \/ CleanupAfterDelete
  \/ CleanupSummary

SpecCleanup == CleanupInit /\ [][CleanupNext]_vars

\* ------------------------------------------------------------------------
\* The admission gate: scripts/validate.ts and the security policy
\* ------------------------------------------------------------------------
\* The largest number of services of a compose descriptor.
MaxServices == 2

\* String.prototype.startsWith, Rego startswith
startsWith(s, prefix) ==
  Len(s) >= Len(prefix) /\ SubSeq(s, 1, Len(prefix)) = prefix

\* Reserved subdomains that cannot be claimed.
reserved_subdomains ==
  { "www", "api", "admin", "dashboard", "console", "portal", "status",
    "mail", "smtp", "imap", "pop", "mx",
    "auth", "login", "oauth", "sso", "accounts", "signin", "signup",
    "docs", "help", "support", "billing", "payments",
    "dev", "staging", "test", "preview", "demo",
    "cdn", "static", "assets", "media", "images", "files",
    "git", "registry", "docker", "k8s", "kubernetes",
    "monitoring", "metrics", "logs", "grafana", "prometheus", "alertmanager",
    "traefik", "proxy", "lb", "ingress", "gateway",
    "internal", "private", "system", "root",
    "ns1", "ns2", "dns", "ntp", "ldap", "radius" }

\* The registry validate.ts loads from config/reserved-subdomains.yaml: the
\* names and the patterns of the policy.
reservedConfig ==
  [reserved |-> reserved_subdomains,
   blocked_prefixes |-> << "admin-", "api-", "internal-" >>]

\* metadata.name of the manifests under validation; "" is a manifest without
\* a name.
Names ==
  { "admin", "Admin", "admin-tools", "administrator-panel", "API-docs",
    "internal-x", "demo", "shop", "shop-p", "Shop-P", "" }

\* String.prototype.includes, Rego contains
contains(s, part) ==
  \E i \in 1..(Len(s) - Len(part) + 1) : SubSeq(s, i, i + Len(part) - 1) = part

\* Rego upper, String.prototype.toUpperCase
RECURSIVE upper(_)
upper(s) ==
  IF Len(s) = 0 THEN ""
  ELSE LET c == SubSeq(s, 1, 1)
           up == { u \in DOMAIN LowerCaseOf : LowerCaseOf[u] = c }
       IN  (IF up # {} THEN CHOOSE u \in up : TRUE ELSE c) \o upper(SubSeq(s, 2, Len(s)))

\* Dangerous Linux capabilities that should never be added.
dangerous_capabilities ==
  { "SYS_ADMIN", "SYS_PTRACE", "SYS_RAWIO", "SYS_MODULE", "DAC_READ_SEARCH",
    "NET_ADMIN", "NET_RAW", "MKNOD", "AUDIT_WRITE", "SETFCAP" }

\* A service of a compose descriptor: keys are the options the YAML gives, and
\* an option that is not among the keys holds "" or << >>.
ServiceNames == << "web", "db", "worker" >>

NoOptions ==
  [keys |-> {}, privileged |-> "", network_mode |-> "", pid |-> "", ipc |-> "",
   userns_mode |-> "", cgroup_parent |-> "", cap_add |-> << >>, devices |-> << >>,
   security_opt |-> << >>, sysctls |-> << >>]

\* The largest number of options the services of a descriptor give in all.
MaxKeys == 2

OptionNames ==
  << "privileged", "network_mode", "pid", "ipc", "userns_mode", "cgroup_parent",
     "cap_add", "devices", "security_opt", "sysctls" >>

\* The values an option is given: the value its rule is about first, then
\* values of the same type the rule is not about.
OptionValues ==
  [privileged    |-> << "true", "false" >>,
   network_mode  |-> << "host", "bridge" >>,
   pid           |-> << "host", "service:web" >>,
   ipc           |-> << "host", "private" >>,
   userns_mode   |-> << "host", "private" >>,
   cgroup_parent |-> << "system.slice" >>,
   cap_add       |-> << << "sys_admin", "CHOWN", "NET_RAW" >>, << "CHOWN" >>, << >> >>,
   devices       |-> << << "/dev/sda:/dev/sda" >>, << >> >>,
   security_opt  |-> << << "seccomp:unconfined" >>, << "no-new-privileges:true" >>, << >> >>,
   sysctls       |-> << << "net.core.somaxconn=1024" >>, << >> >>]

\* An option given to a service: the service, the option and its value, as
\* indices; << 0, 0, 0 >> is no option.
Options(services) ==
  { o \in services \X (DOMAIN OptionNames) \X (1..3) :
      o[3] <= Len(OptionValues[OptionNames[o[2]]]) }

\* The ways of giving at most MaxKeys options to the services, each option of
\* a service once.
Picks(services) ==
  { p \in [1..MaxKeys -> Options(services) \cup { << 0, 0, 0 >> }] :
      \A j \in 1..(MaxKeys - 1) :
        \/ p[j + 1] = << 0, 0, 0 >>
        \/ /\ p[j] # << 0, 0, 0 >>
           /\ p[j][1] * 100 + p[j][2] < p[j + 1][1] * 100 + p[j + 1][2] }

\* The descriptor of the services with the options of p.
ComposeFile(services, p) ==
  [s \in { ServiceNames[n] : n \in services } |->
     LET n == CHOOSE k \in services : ServiceNames[k] = s
         mine == { j \in DOMAIN p : p[j][1] = n }
     IN  [f \in DOMAIN NoOptions |->
            IF f = "keys" THEN { OptionNames[p[j][2]] : j \in mine }
            ELSE IF \E j \in mine : OptionNames[p[j][2]] = f
                 THEN LET j == CHOOSE j \in mine : OptionNames[p[j][2]] = f
                      IN  OptionValues[f][p[j][3]]
                 ELSE NoOptions[f]]]

\* What validateFile and the policy are given: whether the file parses and
\* whether it holds a document at all, what the schema
\* (schemas/provision.schema.json) says of it, the manifest's fields and the
\* compose descriptor of its source.
NoManifest ==
  [parses |-> TRUE, isNull |-> FALSE, schemaValid |-> FALSE, kind |-> "", name |-> "",
   source |-> "", tag |-> "", branch |-> "", size |-> "", ports |-> << >>,
   healthCheck |-> FALSE, healthPort |-> 0, services |-> << >>]

Unparsable == [NoManifest EXCEPT !.parses = FALSE]

\* An empty file: parseYaml returns null.
EmptyFile == [NoManifest EXCEPT !.isNull = TRUE]

\* spec.source of the manifests: a docker image with a tag, a github repository
\* with a branch.
Sources ==
  { [source |-> "docker", tag |-> "latest", branch |-> ""],
    [source |-> "docker", tag |-> "1.27", branch |-> ""],
    [source |-> "github", tag |-> "", branch |-> "main"],
    [source |-> "github", tag |-> "", branch |-> "release"] }

\* spec.ports and spec.healthCheck of the manifests.
HealthChecks ==
  { [ports |-> << 80 >>, healthCheck |-> FALSE, healthPort |-> 0],
    [ports |-> << 80 >>, healthCheck |-> TRUE, healthPort |-> 80],
    [ports |-> << 80 >>, healthCheck |-> TRUE, healthPort |-> 8080],
    [ports |-> << 80, 8080 >>, healthCheck |-> TRUE, healthPort |-> 8080],
    [ports |-> << >>, healthCheck |-> TRUE, healthPort |-> 80] }

\* The manifests without a compose descriptor: every name with every source,
\* size and health check, a file that does not parse and an empty file.
Manifests ==
  { [NoManifest EXCEPT !.schemaValid = valid, !.kind = kind, !.name = name,
                       !.source = src.source, !.tag = src.tag, !.branch = src.branch,
                       !.size = size, !.ports = hc.ports,
                       !.healthCheck = hc.healthCheck, !.healthPort = hc.healthPort] :
      valid \in BOOLEAN, kind \in {"Application", "ComposeStack"}, name \in Names,
      src \in Sources, size \in {"S", "L"}, hc \in HealthChecks }
  \cup {Unparsable, EmptyFile}

\* The shop manifest with a compose descriptor.
ComposeManifest(services, p) ==
  [NoManifest EXCEPT !.schemaValid = TRUE, !.kind = "ComposeStack", !.name = "shop",
                     !.source = "github", !.branch = "release", !.size = "S",
                     !.services = ComposeFile(services, p)]

NoVerdict ==
  [done |-> {}, thrown |-> FALSE, valid |-> FALSE, errors |-> << >>, warnings |-> << >>,
   deny |-> {}, warn |-> {}]

\* The reserved subdomain check of validateFile.
reservedCheck(m) ==
  LET subdomainName == toLowerCase(m.name)
      matching == { i \in DOMAIN reservedConfig.blocked_prefixes :
                      startsWith(subdomainName, reservedConfig.blocked_prefixes[i]) }
      first == CHOOSE i \in matching : \A j \in matching : i <= j
  IN  (IF subdomainName # "" /\ subdomainName \in reservedConfig.reserved
       THEN << [message |-> "Subdomain '" \o subdomainName
                              \o "' is reserved for platform use",
                path |-> "/metadata/name"] >>
       ELSE << >>)
      \o (IF subdomainName # "" /\ matching # {}
          THEN << [message |-> "Subdomain '" \o subdomainName
                                 \o "' matches blocked prefix '"
                                 \o reservedConfig.blocked_prefixes[first] \o "'",
                   path |-> "/metadata/name"] >>
          ELSE << >>)

\* The source validation of validateFile with VALIDATE_SOURCES unset.
sourceWarnings(m) ==
  (IF m.source = "github" /\ m.branch \in {"main", "master"}
   THEN << [message |-> "Using default branch '" \o m.branch
                          \o "' - consider using a specific release branch",
            path |-> "/spec/source/github/branch"] >>
   ELSE << >>)
  \o (IF m.source = "docker" /\ m.tag = "latest"
      THEN << [message |-> "Using 'latest' tag may cause unexpected updates - consider using a specific version",
               path |-> "/spec/source/docker/tag"] >>
      ELSE << >>)

\* The health check finding of validateFile.
healthCheckWarning(m) ==
  IF m.kind = "Application" /\ ~m.healthCheck
  THEN << [message |-> "No health check defined - consider adding one for reliability",
           path |-> "/spec/healthCheck"] >>
  ELSE << >>

\* A validateFile for which a missing health check is an error.
validateFileHealthRequired(m) ==
  LET errors == (IF m.schemaValid THEN << >>
                 ELSE << [message |-> "Schema: validation failed", path |-> "/"] >>)
                \o reservedCheck(m) \o healthCheckWarning(m)
  IN  [thrown |-> FALSE, valid |-> Len(errors) = 0, errors |-> errors,
       warnings |-> sourceWarnings(m)]

\* validateFile: errors and warnings in the order they are pushed; thrown
\* when an exception leaves the function, as for the null document of an
\* empty file, whose metadata cannot be read.
validateFile(m) ==
  LET errors == (IF m.schemaValid THEN << >>
                 ELSE << [message |-> "Schema: validation failed", path |-> "/"] >>)
                \o reservedCheck(m)
  IN  IF ~m.parses
      THEN [thrown |-> FALSE, valid |-> FALSE,
            errors |-> << [message |-> "Failed to parse YAML", path |-> "file"] >>,
            warnings |-> << >>]
      ELSE IF m.isNull
      THEN [thrown |-> TRUE, valid |-> FALSE, errors |-> << >>, warnings |-> << >>]
      ELSE [thrown |-> FALSE, valid |-> Len(errors) = 0, errors |-> errors,
            warnings |-> sourceWarnings(m) \o healthCheckWarning(m)]

\* The deny and warn rules of the policy, in the order of the policy file.
DenyRules ==
  << "privileged", "network_mode", "pid", "ipc", "cap_add", "devices", "security_opt",
     "sysctls", "userns_mode", "cgroup_parent", "reserved", "admin-", "api-", "internal-" >>

Blocked(service, what) == "BLOCKED: Service '" \o service \o "' " \o what

\* The services of the descriptor that give option f.
Giving(m, f) == { s \in DOMAIN m.services : f \in m.services[s].keys }

\* The messages of one deny rule.
denyRule(rule, m) ==
  CASE rule = "privileged" ->
         { Blocked(s, "uses privileged mode - this allows container escape") :
           s \in { t \in Giving(m, rule) : m.services[t].privileged = "true" } }
    [] rule = "network_mode" ->
         { Blocked(s, "uses host network mode - this bypasses network isolation") :
           s \in { t \in Giving(m, rule) : m.services[t].network_mode = "host" } }
    [] rule = "pid" ->
         { Blocked(s, "uses host PID namespace - this exposes host processes") :
           s \in { t \in Giving(m, rule) : m.services[t].pid = "host" } }
    [] rule = "ipc" ->
         { Blocked(s, "uses host IPC namespace - this allows host IPC access") :
           s \in { t \in Giving(m, rule) : m.services[t].ipc = "host" } }
    [] rule = "cap_add" ->
         UNION { { Blocked(s, "adds dangerous capability '" \o m.services[s].cap_add[i] \o "'") :
                   i \in { j \in DOMAIN m.services[s].cap_add :
                             upper(m.services[s].cap_add[j]) \in dangerous_capabilities } } :
                 s \in Giving(m, rule) }
    [] rule = "devices" ->
         { Blocked(s, "mounts host devices - this exposes hardware") :
           s \in { t \in Giving(m, rule) : Len(m.services[t].devices) > 0 } }
    [] rule = "security_opt" ->
         UNION { { Blocked(s, "uses unconfined security option '"
                                \o m.services[s].security_opt[i] \o "'") :
                   i \in { j \in DOMAIN m.services[s].security_opt :
                             contains(m.services[s].security_opt[j], "unconfined") } } :
                 s \in Giving(m, rule) }
    [] rule = "sysctls" ->
         { Blocked(s, "modifies kernel sysctls - this affects host kernel") :
           s \in { t \in Giving(m, rule) : Len(m.services[t].sysctls) > 0 } }
    [] rule = "userns_mode" ->
         { Blocked(s, "uses host user namespace") :
           s \in { t \in Giving(m, rule) : m.services[t].userns_mode = "host" } }
    [] rule = "cgroup_parent" ->
         { Blocked(s, "sets cgroup_parent - this can bypass resource limits") :
           s \in Giving(m, rule) }
    [] rule = "reserved" ->
         IF ~m.isNull /\ toLowerCase(m.name) \in reserved_subdomains
         THEN { "BLOCKED: Subdomain '" \o m.name \o "' is reserved for platform use" }
         ELSE {}
    [] OTHER ->
         IF ~m.isNull /\ startsWith(toLowerCase(m.name), rule)
         THEN { "BLOCKED: Subdomain '" \o toLowerCase(m.name)
                  \o "' matches reserved pattern '" \o rule \o "*'" }
         ELSE {}

\* A policy that denies a descriptor only when all of its services are
\* privileged.
denyWhenAllPrivileged(m) ==
  { Blocked(s, "uses privileged mode - this allows container escape") :
    s \in { t \in DOMAIN m.services :
              \A u \in DOMAIN m.services : m.services[u].privileged = "true" } }

\* A policy that stops at the first rule that has a message.
denyFirstRule(m) ==
  LET firing == { i \in DOMAIN DenyRules : denyRule(DenyRules[i], m) # {} } IN
  IF firing = {} THEN {}
  ELSE denyRule(DenyRules[CHOOSE i \in firing : \A j \in firing : i <= j], m)

\* A policy whose rules are about the presence of an option, whatever its
\* value.
denyOnPresence(m) ==
  UNION { { Blocked(s, "gives " \o f) : f \in m.services[s].keys } :
          s \in DOMAIN m.services }

\* The deny set of the policy for a manifest and its compose descriptor.
deny(m) == UNION { denyRule(DenyRules[i], m) : i \in DOMAIN DenyRules }

\* A policy that has no rule on health checks.
warnWithoutHealthCheck(m) ==
  (IF m.source = "docker" /\ m.tag = "latest"
   THEN { "WARNING: Using 'latest' tag - this may cause unexpected updates" }
   ELSE {})
  \cup
  (IF m.size = "L"
   THEN { "WARNING: Large resource size requested - ensure this is necessary" }
   ELSE {})

\* The warn set of the policy.
warn(m) ==
  (IF ~m.isNull /\ ~m.healthCheck /\ m.kind = "Application"
   THEN { "WARNING: No health check defined - consider adding one for reliability" }
   ELSE {})
  \cup
  (IF m.source = "docker" /\ m.tag = "latest"
   THEN { "WARNING: Using 'latest' tag - this may cause unexpected updates" }
   ELSE {})
  \cup
  (IF m.size = "L"
   THEN { "WARNING: Large resource size requested - ensure this is necessary" }
   ELSE {})

\* validate.ts, for one file
GateValidate ==
  /\ pc = "G:gate"
  /\ "validate" \notin verdict.done
  /\ LET r == validateFile(manifest) IN
       verdict' = [verdict EXCEPT !.done = @ \cup {"validate"}, !.thrown = r.thrown,
                                  !.valid = r.valid, !.errors = r.errors,
                                  !.warnings = r.warnings]
  /\ UNCHANGED << pc, manifest, runs, overlap, lock, inputs, remote, inflight, resp,
                  idx, results, exitCode, cur, calls, gh, before >>

\* The policy, evaluated on the manifest that parsed.
GatePolicy ==
  /\ pc = "G:gate"
  /\ "policy" \notin verdict.done
  /\ manifest.parses
  /\ verdict' = [verdict EXCEPT !.done = @ \cup {"policy"}, !.deny = deny(manifest),
                                 !.warn = warn(manifest)]
  /\ UNCHANGED << pc, manifest, runs, overlap, lock, inputs, remote, inflight, resp,
                  idx, results, exitCode, cur, calls, gh, before >>

GateInit ==
  /\ \/ manifest \in Manifests
     \/ \E services \in { n \in SUBSET DOMAIN ServiceNames : Cardinality(n) <= MaxServices } :
          \E p \in Picks(services) : manifest = ComposeManifest(services, p)
  /\ verdict = NoVerdict
  /\ pc = "G:gate"
  /\ runs = << >>
  /\ overlap = FALSE
  /\ lock = {}
  /\ argv = << >>
  /\ prebuilt = {}
  /\ apiKey = FALSE
  /\ remote = EmptyRemote
  /\ before = EmptyRemote
  /\ inflight = {}
  /\ resp = NoResponse
  /\ idx = 0
  /\ results = << >>
  /\ exitCode = 0
  /\ cur = NoCur
  /\ calls = << >>
  /\ gh = << >>

GateNext ==
  \/ GateValidate
  \/ GatePolicy

SpecGate == GateInit /\ [][GateNext]_vars

\* ------------------------------------------------------------------------
\* scripts/validate.ts: main
\* ------------------------------------------------------------------------
\* What the files named on the command line of the validator hold: a valid
\* manifest, one with a warning only, one with a reserved name, one that does
\* not fit the schema, one that is not YAML, an empty one.
ShopManifest ==
  [NoManifest EXCEPT !.schemaValid = TRUE, !.kind = "Application", !.name = "shop",
                     !.source = "docker", !.tag = "1.27", !.size = "S",
                     !.ports = << 80 >>, !.healthCheck = TRUE, !.healthPort = 80]

ValidatedFiles ==
  { ShopManifest,
    [ShopManifest EXCEPT !.tag = "latest"],
    [ShopManifest EXCEPT !.name = "admin"],
    [ShopManifest EXCEPT !.schemaValid = FALSE],
    Unparsable,
    EmptyFile }

\* hasErrors of main, after the files validated so far.
hasErrors(rs) == \E i \in DOMAIN rs : ~rs[i].valid

\* main called without a file: the usage text and exit 1.
ValidateUsage ==
  /\ pc = "V:loop"
  /\ Len(argv) = 0
  /\ pc' = "V:exit"
  /\ exitCode' = 1
  /\ UNCHANGED << argv, apiKey, prebuilt, remote, idx, results, inflight, resp, cur,
                  calls, gh, before, others >>

\* One turn of the loop of main: validateFile on the next file; its result is
\* printed and kept, or the exception it throws rejects main, whose catch
\* prints the fatal error and exits 1.
ValidateNext ==
  /\ pc = "V:loop"
  /\ idx < Len(argv)
  /\ LET r == validateFile(argv[idx + 1]) IN
       IF r.thrown
       THEN /\ pc' = "V:exit"
            /\ exitCode' = 1
            /\ UNCHANGED << idx, results >>
       ELSE /\ idx' = idx + 1
            /\ results' = Append(results, [valid |-> r.valid, errors |-> r.errors,
                                           warnings |-> r.warnings])
            /\ UNCHANGED << pc, exitCode >>
  /\ UNCHANGED << argv, apiKey, prebuilt, remote, inflight, resp, cur, calls, gh,
                  before, others >>

\* The end of main: exit 1 if a file was invalid, else 0.
ValidateExit ==
  /\ pc = "V:loop"
  /\ Len(argv) > 0
  /\ idx = Len(argv)
  /\ pc' = "V:exit"
  /\ exitCode' = IF hasErrors(results) THEN 1 ELSE 0
  /\ UNCHANGED << argv, apiKey, prebuilt, remote, idx, results, inflight, resp, cur,
                  calls, gh, before, others >>

ValidateInit ==
  /\ \E n \in 0..MaxFiles : argv \in [1..n -> ValidatedFiles]
  /\ pc = "V:loop"
  /\ manifest = NoManifest
  /\ verdict = NoVerdict
  /\ runs = << >>
  /\ overlap = FALSE
  /\ lock = {}
  /\ prebuilt = {}
  /\ apiKey = FALSE
  /\ remote = EmptyRemote
  /\ before = EmptyRemote
  /\ inflight = {}
  /\ resp = NoResponse
  /\ idx = 0
  /\ results = << >>
  /\ exitCode = 0
  /\ cur = NoCur
  /\ calls = << >>
  /\ gh = << >>

ValidateMain ==
  \/ ValidateUsage
  \/ ValidateNext
  \/ ValidateExit

SpecValidate == ValidateInit /\ [][ValidateMain]_vars

\* ------------------------------------------------------------------------
\* scripts/lib/compose/generator.ts
\* ------------------------------------------------------------------------
\* The largest number of directories under the apps root.
MaxApps == 3
\* The largest number of invocations of generateComposeBundle on one apps root.
MaxBundles == 2

\* options.uiHost, as scripts/generate-compose.ts and the apply run give it.
UI_HOST == "p.apps.quickable.co"

RESOURCE_LIMITS ==
  [S |-> [cpus |-> "0.5", memory |-> "512M"],
   M |-> [cpus |-> "1", memory |-> "1G"],
   L |-> [cpus |-> "2", memory |-> "2G"]]

\* The strings the generator compares, in the order localeCompare and the
\* default sort both give them.
Collation ==
  << "API_KEY", "app-a", "app-app-a", "app-app-b", "app-b", "app-provisioner-ui",
     "app-shop", "app-traefik", "DATABASE_URL", "prj-a", "prj-b", "prj-c", "prj-d",
     "prj-e", "provisioner-ui", "public", "shop", "traefik" >>

localeCompare(a, b) ==
  (CHOOSE i \in DOMAIN Collation : Collation[i] = a)
    - (CHOOSE i \in DOMAIN Collation : Collation[i] = b)

\* A provision.yaml as the generator reads it; hostnames is spec.routing.hostnames,
\* empty when the manifest has no routing.
NoApp ==
  [kind |-> "Application", name |-> "", src |-> "docker", image |-> "nginx",
   tag |-> "1.27", owner |-> "", repo |-> "", branch |-> "", size |-> "S",
   ports |-> << >>, healthCheck |-> FALSE, hostnames |-> << >>, secretRefs |-> << >>]

\* The provision.yaml files the directories under the apps root may hold: two
\* manifests named app-a, one built from a repository and routed at its own
\* hostname, one of a size the table does not have, one taking the name of
\* the proxy, one for the provisioner UI with no routing of its own, and a
\* compose stack.
AppManifests ==
  { [NoApp EXCEPT !.name = "app-a", !.ports = << 80 >>, !.healthCheck = TRUE,
                  !.secretRefs = << [name |-> "DATABASE_URL", secret |-> "db-a"] >>],
    [NoApp EXCEPT !.name = "app-a", !.tag = "latest", !.size = "L",
                  !.secretRefs = << [name |-> "DATABASE_URL", secret |-> "db-b"],
                                    [name |-> "API_KEY", secret |-> "key"] >>],
    [NoApp EXCEPT !.name = "app-b", !.src = "github", !.image = "", !.tag = "",
                  !.owner = "acme", !.repo = "shop", !.branch = "main", !.size = "M",
                  !.ports = << 3000 >>, !.hostnames = << "shop.example.com" >>,
                  !.secretRefs = << [name |-> "API_KEY", secret |-> "key"] >>],
    [NoApp EXCEPT !.name = "shop", !.size = "XL"],
    [NoApp EXCEPT !.name = "traefik"],
    [NoApp EXCEPT !.name = "provisioner-ui", !.ports = << 3000 >>],
    [NoApp EXCEPT !.kind = "ComposeStack", !.name = "shop"] }

\* The orders in which readdirSync may list the directories that entries lists.
Enumerations(entries) ==
  { order \in [DOMAIN entries -> DOMAIN entries] :
      \A i, j \in DOMAIN entries : i # j => order[i] # order[j] }

\* Array.prototype.sort with a comparator on a key: stable, so that elements
\* with equal keys keep the order they had.
RECURSIVE sortBy(_, _)
sortBy(list, key) ==
  IF list = << >> THEN << >>
  ELSE LET init == sortBy(SubSeq(list, 1, Len(list) - 1), key)
           last == list[Len(list)]
           at == Cardinality({ i \in DOMAIN init :
                                 localeCompare(init[i][key], last[key]) <= 0 })
       IN  SubSeq(init, 1, at) \o << last >> \o SubSeq(init, at + 1, Len(init))

\* loadApps: the Application manifests in the order readdirSync lists their
\* directories, then sorted by metadata.name.
loadApps(entries) ==
  sortBy(SelectSeq(entries, LAMBDA config : config.kind = "Application"), "name")

\* The Host(...) terms of the hostnames joined by " || "; the back quotes
\* around a hostname are written as quotes.
RECURSIVE hostRule(_)
hostRule(hostnames) ==
  IF Len(hostnames) = 1 THEN "Host('" \o hostnames[1] \o "')"
  ELSE "Host('" \o hostnames[1] \o "') || " \o hostRule(Tail(hostnames))

\* An app service that is also attached to the public network.
buildAppServiceOnPublic(app, domainSuffix) ==
  [networks |-> << "app-" \o app.name, "public" >>, labels |-> << >>,
   image |-> "", build |-> "", limits |-> RESOURCE_LIMITS.S]

\* buildAppService; its third parameter, the UI host, is not read by the
\* function and is left out. The labels are listed in the order labels.sort() leaves
\* them in: enable, routers (entrypoints, rule, tls), services (healthcheck,
\* server port).
buildAppService(app, domainSuffix) ==
  LET name == app.name
      networkName == "app-" \o name
      hostnames == IF app.hostnames # << >> THEN app.hostnames
                   ELSE << name \o "-p." \o domainSuffix >>
      port == IF app.ports # << >> THEN app.ports[1] ELSE 8080
  IN  [networks |-> << networkName >>,
       labels |->
         << "traefik.enable=true",
            "traefik.http.routers." \o name \o ".entrypoints=websecure",
            "traefik.http.routers." \o name \o ".rule=" \o hostRule(hostnames),
            "traefik.http.routers." \o name \o ".tls.certresolver=letsencrypt" >>
         \o (IF app.healthCheck
             THEN << "traefik.http.services." \o name \o ".loadbalancer.healthcheck" >>
             ELSE << >>)
         \o << "traefik.http.services." \o name \o ".loadbalancer.server.port="
                 \o ToString(port) >>,
       image |-> IF app.src = "docker" THEN app.image \o ":" \o app.tag ELSE "",
       build |-> IF app.src = "github"
                 THEN "https://github.com/" \o app.owner \o "/" \o app.repo
                        \o ".git#" \o app.branch
                 ELSE "",
       limits |-> IF app.size \in DOMAIN RESOURCE_LIMITS
                  THEN RESOURCE_LIMITS[app.size]
                  ELSE RESOURCE_LIMITS.S]

\* buildTraefikService: the app networks and public, sorted.
buildTraefikService(appNetworks, traefikImage) ==
  LET networks == sortBy([i \in 1..(Len(appNetworks) + 1) |->
                            [name |-> (appNetworks \o << "public" >>)[i]]], "name")
  IN  [networks |-> [i \in DOMAIN networks |-> networks[i].name],
       labels |-> << "traefik.enable=false" >>,
       image |-> traefikImage, build |-> "",
       limits |-> [cpus |-> "", memory |-> ""]]

\* buildCompose: services[name] and networks[app-name] are assigned app after
\* app, a later app of the same name replacing the earlier one, then
\* services.traefik and networks.public.
buildCompose(apps, domainSuffix) ==
  LET names == { apps[i].name : i \in DOMAIN apps }
      lastOf(n) == CHOOSE i \in DOMAIN apps :
                     /\ apps[i].name = n
                     /\ \A j \in DOMAIN apps : apps[j].name = n => j <= i
      appNetworks == [i \in DOMAIN apps |-> "app-" \o apps[i].name]
  IN  [services |->
         [n \in names \cup {"traefik"} |->
            IF n = "traefik"
            THEN buildTraefikService(appNetworks, "traefik:v2.11")
            ELSE buildAppService(apps[lastOf(n)], domainSuffix)],
       networks |->
         [n \in { "app-" \o m : m \in names } \cup {"public"} |->
            [internal |-> n # "public"]]]

\* stringifyCompose with sortMapEntries: the entries of services and of
\* networks, each map written in the order of its keys.
stringifyCompose(compose) ==
  LET entries(map) ==
        LET n == Cardinality(DOMAIN map)
            keys == CHOOSE f \in [1..n -> DOMAIN map] :
                      \A a, b \in 1..n : a # b => f[a] # f[b]
        IN  sortBy([i \in 1..n |-> [key |-> keys[i], value |-> map[keys[i]]]], "key")
  IN  [services |-> entries(compose.services),
       networks |-> entries(compose.networks)]

\* collectSecretBindings: the secret references of the apps in order, sorted
\* by envKey, the repetitions of an envKey:secretName pair dropped.
RECURSIVE secretRefsOf(_)
secretRefsOf(apps) ==
  IF apps = << >> THEN << >>
  ELSE [i \in DOMAIN apps[1].secretRefs |->
          [envKey |-> apps[1].secretRefs[i].name,
           secretName |-> apps[1].secretRefs[i].secret]]
       \o secretRefsOf(Tail(apps))

collectSecretBindings(apps) ==
  LET bindings == sortBy(secretRefsOf(apps), "envKey")
      first(i) == \A j \in 1..(i - 1) : bindings[j] # bindings[i]
      kept == { i \in DOMAIN bindings : first(i) }
  IN  [n \in 1..Cardinality(kept) |->
         bindings[CHOOSE i \in kept : Cardinality({ j \in kept : j <= i }) = n]]

\* generateComposeBundle over the directories as readdirSync lists them.
generateComposeBundle(entries, domainSuffix) ==
  LET apps == loadApps(entries)
      compose == buildCompose(apps, domainSuffix)
  IN  [compose |-> compose,
       yaml |-> stringifyCompose(compose),
       appNames |-> [i \in DOMAIN apps |-> apps[i].name],
       secretBindings |-> collectSecretBindings(apps)]

\* An invocation of the generator: readdirSync lists the directories in some
\* order, and the bundle is built from that listing.
GenerateComposeBundle ==
  /\ pc = "C:generate"
  /\ Len(results) < MaxBundles
  /\ \E order \in Enumerations(argv) :
       results' = Append(results,
                         generateComposeBundle([i \in DOMAIN argv |-> argv[order[i]]],
                                               DOMAIN_SUFFIX))
  /\ UNCHANGED << argv, apiKey, prebuilt, remote, pc, idx, exitCode, inflight, resp,
                  cur, calls, gh, before, others >>

\* The directories under the apps root, each with the manifest it holds.
GenerateInit ==
  /\ \E n \in 0..MaxApps :
       /\ argv \in [1..n -> AppManifests]
       /\ \A i, j \in 1..n : i < j => argv[i] # argv[j]
  /\ pc = "C:generate"
  /\ manifest = NoManifest
  /\ verdict = NoVerdict
  /\ runs = << >>
  /\ overlap = FALSE
  /\ lock = {}
  /\ prebuilt = {}
  /\ apiKey = FALSE
  /\ remote = EmptyRemote
  /\ before = EmptyRemote
  /\ inflight = {}
  /\ resp = NoResponse
  /\ idx = 0
  /\ results = << >>
  /\ exitCode = 0
  /\ cur = NoCur
  /\ calls = << >>
  /\ gh = << >>

SpecGenerate == GenerateInit /\ [][GenerateComposeBundle]_vars

\* ------------------------------------------------------------------------
\* Vocabulary of the properties
\* ------------------------------------------------------------------------
AppsNamed(R, name) ==
  { a \in 1..Len(R.apps) : R.apps[a].live /\ R.apps[a].name = name }

\* The applications of that name in the projects of that name: the
\* applications a project resolved by name would list.
AppsIn(R, projectName, name) ==
  { a \in AppsNamed(R, name) : R.projects[R.apps[a].env].name = projectName }

DomainsOf(R, app) == { d \in 1..Len(R.domains) : R.domains[d].app = app }

DomainsAt(R, app, host) == { d \in DomainsOf(R, app) : R.domains[d].host = host }

DeploysOf(R, app) == { d \in 1..Len(R.deploys) : R.deploys[d].app = app }

\* The control plane after the answered requests of the log, in order.
RECURSIVE Replay(_, _)
Replay(R, log) ==
  IF Len(log) = 0 THEN R
  ELSE Replay(IF log[1].outcome = "ok" THEN Serve(R, log[1].call).remote ELSE R,
              Tail(log))

IsApplication(path) ==
  /\ Disk[path].state = "ok"
  /\ Disk[path].config.kind = "Application"
  /\ Disk[path].config.hasMeta

\* provisionApplication is running or has returned for the file at idx, and no
\* later file has been taken up.
InReconcile == idx >= 1 /\ IsApplication(FilePath)

\* provisionApplication has returned for the file at idx.
Reconciled == InReconcile /\ Len(results) = idx

ProjectName == "provisioner-" \o Subdomain

\* ------------------------------------------------------------------------
\* Claims
\* ------------------------------------------------------------------------

\* C1: after any sequence of reconcile runs the project resolved by name holds
\* at most one application per name; reconciling a name that exists never
\* creates a second application of that name.
C1_OneApplicationPerName ==
  \A a, b \in 1..Len(remote.apps) :
    /\ remote.apps[a].live /\ remote.apps[b].live
    /\ remote.apps[a].name = remote.apps[b].name
    /\ remote.projects[remote.apps[a].env].name = remote.projects[remote.apps[b].env].name
    => a = b

\* C2: when two or more applications already carry metadata.name, reconcile
\* returns a failed result with an error and changes nothing on the control
\* plane: no create, no update, no domain, no deploy.
C2_AmbiguityAborts ==
  (InReconcile /\ Cardinality(AppsIn(before, ProjectName, Config.name)) >= 2)
    => /\ remote = before
       /\ Reconciled => (~results[idx].success /\ results[idx].error # "")

\* C3: reconcile(M) twice in a row, both successful, returns the same
\* applicationId, and the second call adds no project, application or domain.
C3_Idempotent ==
  ( /\ Reconciled
    /\ idx >= 2
    /\ argv[idx - 1] = argv[idx]
    /\ results[idx - 1].success
    /\ results[idx].success )
    => /\ results[idx].applicationId = results[idx - 1].applicationId
       /\ Len(remote.projects) = Len(before.projects)
       /\ Len(remote.apps) = Len(before.apps)
       /\ Len(remote.domains) = Len(before.domains)

\* C4: reconciling an application that exists with a domain at the derived host
\* sets that domain's port to the manifest's first containerPort and creates no
\* second domain; an existing application without a domain gets one; the host
\* of an existing domain never changes.
C4_DomainPortDrift ==
  (Reconciled /\ results[idx].success)
    => /\ \A a \in AppsIn(before, ProjectName, Config.name) :
            /\ DomainsAt(before, a, fullDomainOf(Subdomain)) # {}
                 => /\ Len(remote.domains) = Len(before.domains)
                    /\ \A d \in DomainsAt(before, a, fullDomainOf(Subdomain)) :
                         remote.domains[d].port = PortOf(Config)
            /\ DomainsOf(before, a) = {}
                 => Cardinality(DomainsOf(remote, a)) = 1
       /\ \A d \in 1..Len(before.domains) :
            remote.domains[d].host = before.domains[d].host

\* C5: a successful reconcile triggers exactly one deployment: the initial
\* deploy with the fixed title when no application of the name existed, the
\* redeploy when one existed; a re-apply never triggers the initial deploy.
C5_OneDeployTrigger ==
  (Reconciled /\ results[idx].success)
    => /\ Len(remote.deploys) = Len(before.deploys) + 1
       /\ LET d == remote.deploys[Len(remote.deploys)] IN
          IF AppsIn(before, ProjectName, Config.name) = {}
          THEN d.op = "application.deploy" /\ d.title = INITIAL_TITLE
          ELSE d.op = "application.redeploy"

\* C6: when a request of a reconcile fails, no later request of that reconcile
\* is issued, the result is the failed result with the error's message, and
\* nothing is undone: the control plane holds exactly what the answered requests
\* before the failure made, every created project and application included.
C6_FailureAborts ==
  \A k \in 1..Len(calls) :
    calls[k].outcome = "failed"
      => /\ k = Len(calls)
         /\ inflight = {}
         /\ remote = Replay(before, calls)
         /\ \A p \in (Len(before.projects) + 1)..Len(remote.projects) :
              remote.projects[p].live
         /\ \A a \in (Len(before.apps) + 1)..Len(remote.apps) : remote.apps[a].live
         /\ (calls[k].file >= 1 /\ pc \in {"loop", "exit"})
              => /\ Len(results) >= calls[k].file
                 /\ results[calls[k].file] =
                      Failure(Disk[argv[calls[k].file]].config.name,
                              getSubdomainFromPath(argv[calls[k].file]), API_ERROR)

\* C6 witness: a reconcile has returned after its third or a later request
\* failed, and the application it created is on the control plane.
C6_Witness ==
  /\ pc = "loop"
  /\ Len(calls) >= 3
  /\ calls[Len(calls)].outcome = "failed"
  /\ Len(remote.apps) > Len(before.apps)
  /\ ~results[Len(results)].success

\* An application of the name that was never deployed: what a reconcile that
\* failed after creating it leaves behind.
PartiallyApplied(R, projectName, name) ==
  \E a \in AppsIn(R, projectName, name) : DeploysOf(R, a) = {}

\* The control plane holds exactly one application of the manifest's name, with
\* the manifest's source, quota and environment and exactly one domain, at the
\* derived host with the manifest's port.
Converged(R) ==
  /\ Cardinality(AppsIn(R, ProjectName, Config.name)) = 1
  /\ \A a \in AppsIn(R, ProjectName, Config.name) :
       /\ R.apps[a].cpuLimit = QUOTAS[Config.size].cpuLimit
       /\ R.apps[a].memoryLimit = QUOTAS[Config.size].memoryLimit
       /\ R.apps[a].envText = Join(EnvVars(Config))
       /\ Config.src = "docker" /\ PrebuiltOf(Subdomain) = NoImage
            => R.apps[a].source = Config.image \o ":" \o Config.tag
       /\ Cardinality(DomainsOf(R, a)) = 1
       /\ \A d \in DomainsOf(R, a) :
            /\ R.domains[d].host = fullDomainOf(Subdomain)
            /\ R.domains[d].port = PortOf(Config)

\* C7: if reconcile(M) failed after the application was created, a later
\* reconcile(M) in which every request succeeds leaves the control plane
\* converged to M.
C7_Repair ==
  ( /\ Reconciled
    /\ idx >= 2
    /\ argv[idx - 1] = argv[idx]
    /\ ~results[idx - 1].success
    /\ PartiallyApplied(before, ProjectName, Config.name)
    /\ results[idx].success )
    => Converged(remote)

\* C8: every path of the argument list is taken up: once the loop has begun,
\* the process ends only after the last path.
C8_EveryFileAttempted ==
  (pc = "exit" /\ idx >= 1) => idx = Len(argv)

\* C9: the batch ends with one result per path, in the order of the paths, and
\* the exit status is non-zero exactly when one of the results is a failure.
C9_OneResultPerFile ==
  (pc = "exit" /\ idx >= 1)
    => /\ Len(results) = Len(argv)
       /\ \A i \in 1..Len(results) :
            results[i].subdomain = getSubdomainFromPath(argv[i])
       /\ (exitCode # 0) <=> (\E i \in 1..Len(results) : ~results[i].success)

\* C10: reconciles never overlap: at most one request is unanswered at any
\* time, it belongs to the file the loop is at, and every earlier file has its
\* result by then.
C10_Sequential ==
  /\ Cardinality(inflight) <= 1
  /\ \A r \in inflight :
       /\ r.file = idx
       /\ Len(results) = IF idx = 0 THEN 0 ELSE idx - 1

\* C10 witness: a request of the second file is unanswered and the first file,
\* a reconcile that created an application, has its result.
C10_Witness ==
  \E r \in inflight :
    /\ r.file = 2
    /\ Len(results) = 1
    /\ results[1].applicationId # 0

\* C11: project resolution is find-or-create: after any number of runs, one
\* after the other, the control plane holds one project per project name, and
\* every project has the one environment it was created with.
C11_OneProjectPerName ==
  \A p, q \in 1..Len(remote.projects) :
    /\ Len(remote.projects[p].environments) = 1
    /\ ( /\ remote.projects[p].live /\ remote.projects[q].live
         /\ remote.projects[p].name = remote.projects[q].name )
       => p = q

ProjectsNamed(R, name) ==
  { p \in 1..Len(R.projects) : R.projects[p].live /\ R.projects[p].name = name }

\* C12: two projects named provisioner exist only if two invocations of the
\* ComposeStack apply ran at the same time; invocations that run one after the
\* other keep one project of that name.
C12_DuplicateOnlyWhenOverlapping ==
  Cardinality(ProjectsNamed(remote, PROJECT_NAME)) >= 2 => overlap

\* C12 witness: two invocations both looked the project up, found none and
\* created it: two projects named provisioner.
C12_Witness ==
  /\ Cardinality(ProjectsNamed(remote, PROJECT_NAME)) = 2
  /\ \E r, o \in Runs :
       /\ runs[r].projectId # 0 /\ runs[o].projectId # 0
       /\ runs[r].projectId # runs[o].projectId

\* The applications of that name cleanupApp can see: those of the first
\* environment of the first project named provisioner.
Matches(R, name) ==
  LET project == findProjectByName(Read(R, Call("project.all", NoArg)).projects,
                                   PROJECT_NAME)
  IN  IF project = 0 \/ Len(R.projects[project].environments) = 0 THEN {}
      ELSE { a \in AppsNamed(R, name) : R.apps[a].env = R.projects[project].environments[1] }

\* cleanupApp has returned for the path at idx.
Cleaned == pc \in {"K:loop", "exit"} /\ idx >= 1 /\ Len(results) = idx

DeleteCalls == { k \in 1..Len(calls) : calls[k].call.op = "application.delete" }

C14_AmbiguousRemoveFails ==
  (Cleaned /\ Cardinality(Matches(before, AppNameOf(FilePath))) >= 2)
    => /\ ~results[idx].success
       /\ remote = before

\* provisionApplication or provisionCompose is running or has returned for the
\* file at idx.
Provisioning ==
  /\ idx >= 1
  /\ Disk[FilePath].state = "ok"
  /\ Disk[FilePath].config.kind \in {"Application", "ComposeStack"}
  /\ Disk[FilePath].config.hasMeta

\* The deployment of the file at idx was triggered: every request of the
\* reconcile, the deployment last, was answered without an error.
Deployed ==
  /\ Provisioning
  /\ Len(calls) >= 1
  /\ calls[Len(calls)].call.op \in {"application.deploy", "compose.deploy"}
  /\ \A k \in 1..Len(calls) : calls[k].outcome = "ok"

\* C15: once the deployment was triggered, nothing that happens in the
\* auto-deploy step makes the result a failure: the result has success = true,
\* and autoDeployConfigured = false when the step did not complete.
C15_AutoDeployNeverFails ==
  (Deployed /\ Len(results) = idx)
    => /\ results[idx].success
       /\ (Len(gh) = 0 \/ gh[Len(gh)] # "contents put")
            => ~results[idx].autoDeployConfigured

\* C16: for a docker source, and for a github source whose owner is not on the
\* allow-list, no gh command is run, neither on the secrets nor on the
\* workflow file, and autoDeployConfigured is false.
C16_AllowListOnly ==
  (Provisioning /\ (Config.src # "github" \/ toLowerCase(Config.owner) \notin writableOrgs))
    => /\ gh = << >>
       /\ Len(results) = idx => ~results[idx].autoDeployConfigured

\* C16 witness: a successful reconcile of a github source whose owner is not on
\* the allow-list, after a reconcile of an owner on the list installed the
\* secret and the workflow.
C16_Witness ==
  /\ Provisioning
  /\ idx = 2
  /\ Len(results) = 2
  /\ results[1].autoDeployConfigured
  /\ results[2].success
  /\ Config.src = "github"
  /\ gh = << >>

\* ------------------------------------------------------------------------
\* The admission gate and the reconciler
\* ------------------------------------------------------------------------
\* The manifest of an apply, as the gate sees it: it parses, fits the schema
\* and has no compose descriptor.
AsManifest(config) ==
  [NoManifest EXCEPT !.schemaValid = TRUE, !.kind = config.kind, !.name = config.name,
                     !.source = config.src, !.tag = config.tag, !.branch = config.branch,
                     !.size = config.size, !.ports = config.ports]

Rejected(config) ==
  \/ ~validateFile(AsManifest(config)).valid
  \/ deny(AsManifest(config)) # {}

\* C17: while and after a manifest that the gate rejects is reconciled, the
\* control plane is as it was when the reconcile began.
C17_RejectedNeverMutates ==
  (Provisioning /\ Rejected(Config)) => remote = before

\* String.prototype.endsWith
endsWith(s, suffix) ==
  Len(s) >= Len(suffix) /\ SubSeq(s, Len(s) - Len(suffix) + 1, Len(s)) = suffix

Validated == "validate" \in verdict.done /\ manifest.parses

\* C18: a manifest whose case-folded metadata.name ends with "-p" is reported
\* invalid by validateFile.
C18_SuffixSafety ==
  (Validated /\ endsWith(toLowerCase(manifest.name), "-p")) => ~verdict.valid

\* The errors validateFile reports at /metadata/name, and the policy's
\* messages on the subdomain.
NamingErrors ==
  { k \in DOMAIN verdict.errors : verdict.errors[k].path = "/metadata/name" }

NamingDenials == { msg \in verdict.deny : startsWith(msg, "BLOCKED: Subdomain") }

NamingRule(name) ==
  LET folded == toLowerCase(name) IN
  \/ folded \in reserved_subdomains
  \/ \E p \in {"admin-", "api-", "internal-"} : startsWith(folded, p)
  \/ endsWith(folded, "-p")

\* C19: validateFile reports an error on the name, and the policy a denial of
\* the subdomain, exactly when the case-folded name is reserved, starts with a
\* blocked prefix or ends with "-p".
C19_ReservedNames ==
  /\ Validated => (NamingErrors # {} <=> NamingRule(manifest.name))
  /\ "policy" \in verdict.done => (NamingDenials # {} <=> NamingRule(manifest.name))

PrivilegedMessage(service) ==
  "BLOCKED: Service '" \o service
    \o "' uses privileged mode - this allows container escape"

\* C20: once the policy was evaluated, its deny set holds, for every service
\* of the descriptor that sets privileged: true, the message on privileged
\* mode that names that service, whatever the other services are.
C20_PrivilegedDenied ==
  "policy" \in verdict.done
    => \A s \in DOMAIN manifest.services :
         manifest.services[s].privileged = "true" => PrivilegedMessage(s) \in verdict.deny

\* C20 witness: a descriptor of two services, one privileged and one that sets
\* no security option, whose only denial names the privileged one.
C20_Witness ==
  /\ "policy" \in verdict.done
  /\ DOMAIN manifest.services = {"web", "db"}
  /\ manifest.services["db"].keys = {"privileged"}
  /\ manifest.services["db"].privileged = "true"
  /\ manifest.services["web"] = NoOptions
  /\ manifest.name = "shop"
  /\ verdict.deny = {PrivilegedMessage("db")}

\* ------------------------------------------------------------------------
\* The security rules of the policy
\* ------------------------------------------------------------------------
\* Service options holds a dangerous value of option f.
Violates(options, f) ==
  /\ f \in options.keys
  /\ CASE f = "privileged" -> options.privileged = "true"
       [] f \in {"network_mode", "pid", "ipc", "userns_mode"} -> options[f] = "host"
       [] f = "cgroup_parent" -> TRUE
       [] f = "cap_add" ->
            \E i \in DOMAIN options.cap_add, d \in dangerous_capabilities :
              toLowerCase(options.cap_add[i]) = toLowerCase(d)
       [] f = "security_opt" ->
            \E i \in DOMAIN options.security_opt :
              contains(options.security_opt[i], "unconfined")
       [] OTHER -> Len(options[f]) > 0

Violations ==
  { v \in (DOMAIN manifest.services) \X (DOMAIN OptionValues) :
      Violates(manifest.services[v[1]], v[2]) }

\* What the message of the rule on option f says.
Keyword ==
  [privileged |-> "privileged mode", network_mode |-> "host network mode",
   pid |-> "host PID namespace", ipc |-> "host IPC namespace",
   userns_mode |-> "host user namespace", cgroup_parent |-> "cgroup_parent",
   cap_add |-> "dangerous capability", devices |-> "host devices",
   security_opt |-> "unconfined security option", sysctls |-> "kernel sysctls"]

Naming(service) ==
  { msg \in verdict.deny : startsWith(msg, "BLOCKED: Service '" \o service \o "' ") }

\* C21: once the policy was evaluated, every dangerous value of every service
\* has a message in the deny set that names the service and the rule, so the
\* deny set has at least as many messages as there are violations.
C21_EveryViolationReported ==
  "policy" \in verdict.done
    => /\ \A v \in Violations :
            \E msg \in Naming(v[1]) : contains(msg, Keyword[v[2]])
       /\ Cardinality(verdict.deny) >= Cardinality(Violations)

\* C21 witness: the services of a descriptor break different rules, web the
\* rule on the PID namespace and db the rule on capabilities with two of them,
\* and the deny set holds the three messages.
C21_Witness ==
  /\ "policy" \in verdict.done
  /\ DOMAIN manifest.services = {"web", "db"}
  /\ Violations = { << "web", "pid" >>, << "db", "cap_add" >> }
  /\ Cardinality(Naming("web")) = 1
  /\ Cardinality(Naming("db")) = 2
  /\ Cardinality(verdict.deny) = 3

Evaluated == Validated /\ "policy" \in verdict.done

\* The manifest has none of the findings that block: it fits the schema, its
\* name breaks no naming rule, its health check, if any, is at a declared
\* port, and no service holds a dangerous value.
NothingBlocks ==
  /\ manifest.schemaValid
  /\ ~NamingRule(manifest.name)
  /\ manifest.healthCheck
       => \E i \in DOMAIN manifest.ports : manifest.ports[i] = manifest.healthPort
  /\ Violations = {}

WarnedAt(path) == \E i \in DOMAIN verdict.warnings : verdict.warnings[i].path = path

Warned(part) == \E msg \in verdict.warn : contains(msg, part)

ScenarioA ==
  /\ Evaluated
  /\ manifest.schemaValid
  /\ ~NamingRule(manifest.name)
  /\ manifest.kind = "Application"
  /\ manifest.source = "docker"
  /\ manifest.tag = "latest"
  /\ manifest.size = "S"
  /\ manifest.ports = << 80 >>
  /\ ~manifest.healthCheck

C25_HealthCheckPort ==
  (Validated /\ manifest.healthCheck
     /\ \A i \in DOMAIN manifest.ports : manifest.ports[i] # manifest.healthPort)
    => ~verdict.valid

\* ------------------------------------------------------------------------
\* The validator over a list of files
\* ------------------------------------------------------------------------
\* C28: once the validator has ended on a list of files, it has a verdict for
\* every file, in order; a file that is not YAML, is empty or does not fit the
\* schema has an invalid verdict; and a verdict is valid exactly when its
\* error list is empty.
C28_VerdictPerFile ==
  (pc = "V:exit" /\ Len(argv) > 0)
    => /\ Len(results) = Len(argv)
       /\ \A i \in DOMAIN results :
            /\ results[i].valid <=> results[i].errors = << >>
            /\ (~argv[i].parses \/ argv[i].isNull \/ ~argv[i].schemaValid)
                 => ~results[i].valid

\* ------------------------------------------------------------------------
\* The domain host
\* ------------------------------------------------------------------------
\* C26: every successful result of the reconciler records the domain
\* https://{metadata.name}-p.{domain suffix}, and every domain the run
\* created is at the host {metadata.name}-p.{domain suffix} of a manifest it
\* applied.
C26_DomainHost ==
  /\ \A i \in DOMAIN results :
       results[i].success
         => results[i].domain = "https://" \o results[i].appName \o "-p." \o DOMAIN_SUFFIX
  /\ \A d \in DOMAIN remote.domains :
       d > Len(before.domains)
         => \E f \in Files :
              /\ Disk[f].state = "ok"
              /\ remote.domains[d].host = Disk[f].config.name \o "-p." \o DOMAIN_SUFFIX

\* ------------------------------------------------------------------------
\* The compose generator
\* ------------------------------------------------------------------------
\* The services of a generated compose other than the proxy.
AppServices(compose) == DOMAIN compose.services \ {"traefik"}

Attached(compose, service) ==
  { compose.services[service].networks[i] :
      i \in DOMAIN compose.services[service].networks }

\* The Application manifests under the apps root that have that name.
AppsOfName(name) ==
  { i \in DOMAIN argv : argv[i].kind = "Application" /\ argv[i].name = name }

\* C27: an app service of a generated compose has the limits that the fixed
\* table gives for the size of a manifest of its name, which is S, M or L:
\* S is 0.5 CPU and 512M, M is 1 CPU and 1G, L is 2 CPU and 2G.
C27_QuotaTable ==
  \A b \in DOMAIN results :
    \A n \in AppServices(results[b].compose) :
      \E i \in AppsOfName(n) :
        /\ argv[i].size \in {"S", "M", "L"}
        /\ results[b].compose.services[n].limits =
             CASE argv[i].size = "S" -> [cpus |-> "0.5", memory |-> "512M"]
               [] argv[i].size = "M" -> [cpus |-> "1", memory |-> "1G"]
               [] argv[i].size = "L" -> [cpus |-> "2", memory |-> "2G"]

\* C29: the bundles that the invocations of the generator build from one apps
\* root have the same YAML, the same app names and the same secret bindings,
\* in whatever order each invocation lists the directories.
C29_Deterministic ==
  \A a, b \in DOMAIN results :
    /\ results[a].yaml = results[b].yaml
    /\ results[a].appNames = results[b].appNames
    /\ results[a].secretBindings = results[b].secretBindings

\* C30: in every generated compose each app service is attached to the one
\* network app-{name}, declared internal; no two app services share a
\* network; the proxy is attached to every such network and to public, which
\* is not internal; and every network a service is attached to is declared.
C30_NetworkIsolation ==
  \A b \in DOMAIN results :
    LET compose == results[b].compose IN
    /\ \A n \in AppServices(compose) :
         /\ compose.services[n].networks = << "app-" \o n >>
         /\ compose.networks["app-" \o n].internal
         /\ "app-" \o n \in Attached(compose, "traefik")
    /\ \A n, m \in AppServices(compose) :
         n # m => Attached(compose, n) \cap Attached(compose, m) = {}
    /\ "public" \in Attached(compose, "traefik")
    /\ ~compose.networks["public"].internal
    /\ \A n \in DOMAIN compose.services : Attached(compose, n) \subseteq DOMAIN compose.networks

\* C30 witness: a compose generated for app-a and app-b, each on its own
\* internal network, the proxy on both and on public.
C30_Witness ==
  \E b \in DOMAIN results :
    /\ AppServices(results[b].compose) = {"app-a", "app-b"}
    /\ results[b].compose.services["traefik"].networks
         = << "app-app-a", "app-app-b", "public" >>
    /\ results[b].compose.services["app-b"].networks = << "app-app-b" >>

\* C31: every generated compose has a service named provisioner-ui, and the
\* rule of its router is the host the generator was given as uiHost.
C31_UiHost ==
  \A b \in DOMAIN results :
    /\ "provisioner-ui" \in DOMAIN results[b].compose.services
    /\ \E i \in DOMAIN results[b].compose.services["provisioner-ui"].labels :
         results[b].compose.services["provisioner-ui"].labels[i]
           = "traefik.http.routers.provisioner-ui.rule=Host('" \o UI_HOST \o "')"

\* ------------------------------------------------------------------------
\* The ComposeStack apply: removals, the lock file, the compose
\* ------------------------------------------------------------------------
\* Invocation r takes the step that begins main.
Begins(r) == runs[r].pc = "idle" /\ runs'[r].pc # "idle"

\* C32: an invocation that finds in the lock file an app that apps/ no longer
\* holds, and is not given --allow-removals, exits with a non-zero code
\* without writing the compose file, sending a request or touching the lock
\* file; every invocation that goes on while an app is missing was given
\* --allow-removals, and has written the compose file.
C32_RemovalsNeedFlag ==
  [][\A r \in Runs :
       Begins(r) =>
         /\ runs'[r].refused
              => /\ runs'[r].pc = "exit"
                 /\ runs'[r].exitCode # 0
                 /\ manifest' = manifest
                 /\ remote' = remote
                 /\ lock' = lock
         /\ ~runs'[r].refused
              => /\ runs'[r].pc = "exit" => (~apiKey /\ lock = {})
                 /\ runs'[r].pc # "exit"
                      => /\ manifest'.apps = runs'[r].apps
                         /\ (lock \ runs'[r].apps # {}) => runs'[r].allowRemovals
         /\ (runs'[r].pc # "exit" /\ lock \ runs'[r].apps # {})
              => runs'[r].pc = "healthCheck"]_vars

\* C32 witness: after a run deployed the blog, a run over the empty apps/
\* without --allow-removals was refused; the compose file and the lock file
\* are those of the first run.
C32_Witness ==
  /\ ~overlap
  /\ \E r \in Runs : runs[r].refused /\ runs[r].exitCode = 1
  /\ lock = {"blog"}
  /\ manifest = [apps |-> {"blog"}]

\* C38: the lock file changes only in the step in which an invocation whose
\* deploy or redeploy request was accepted ends with code 0, and it then
\* holds the apps of that invocation; an invocation that ends with another
\* code leaves the lock file as it was.
C38_LockAfterDeploy ==
  [][/\ lock' # lock
          => \E r \in Runs :
               /\ runs[r].pc = "deploy" /\ runs[r].resp.ok
               /\ runs'[r].pc = "exit" /\ runs'[r].exitCode = 0
               /\ lock' = runs[r].apps
     /\ \A r \in Runs :
          (runs[r].pc # "exit" /\ runs'[r].pc = "exit" /\ runs'[r].exitCode # 0)
            => lock' = lock
     /\ \A r \in Runs :
          (runs[r].pc # "exit" /\ runs'[r].pc = "exit" /\ runs'[r].exitCode = 0)
            => lock' = runs[r].apps]_vars

\* C38 witness: after a run deployed the blog, a run over the empty apps/ with
\* --allow-removals wrote the compose file and then failed: the lock file
\* still lists the blog.
C38_Witness ==
  /\ ~overlap
  /\ \A r \in Runs : runs[r].pc = "exit"
  /\ \E r \in Runs : runs[r].exitCode = 1 /\ ~runs[r].refused
  /\ manifest = [apps |-> {}]
  /\ lock = {"blog"}

\* The composes of that name.
ComposesNamed(R, name) ==
  { c \in DOMAIN R.composes : R.composes[c].live /\ R.composes[c].name = name }

\* C39: while the invocations run one after the other there is at most one
\* compose named provisioner; ensureCompose sends createCompose only when
\* there is none, and returns isNew = true with the id of the compose it
\* created; otherwise it returns isNew = false with the id of the one compose
\* there is.
C39_OneCompose ==
  [][~overlap' =>
       /\ Cardinality(ComposesNamed(remote', COMPOSE_NAME)) <= 1
       /\ \A r \in Runs :
            /\ (runs[r].pc = "ensureCompose" /\ runs'[r].pc = "createCompose")
                 => /\ ComposesNamed(remote, COMPOSE_NAME) = {}
                    /\ runs'[r].resp.ok
                         => ComposesNamed(remote', COMPOSE_NAME) = {runs'[r].resp.id}
            /\ (runs[r].pc = "createCompose" /\ runs'[r].pc = "configureProvider")
                 => /\ runs'[r].isNew
                    /\ ComposesNamed(remote, COMPOSE_NAME) = {runs'[r].composeId}
            /\ (runs[r].pc = "ensureCompose" /\ runs'[r].pc = "configureProvider")
                 => /\ ~runs'[r].isNew
                    /\ ComposesNamed(remote, COMPOSE_NAME) = {runs'[r].composeId}
                    /\ Len(remote'.composes) = Len(remote.composes)]_vars

\* C39 witness: two runs, one after the other, have both ended with code 0 and
\* there is one compose named provisioner, deployed by both.
C39_Witness ==
  /\ ~overlap
  /\ \A r \in Runs : runs[r].pc = "exit" /\ runs[r].exitCode = 0
  /\ Cardinality(ComposesNamed(remote, COMPOSE_NAME)) = 1
  /\ Len(remote.deploys) >= 2


\* ------------------------------------------------------------------------
\* provisionApplication: source, build, environment, order of the requests
\* ------------------------------------------------------------------------
\* The requests of the reconcile at idx that configure where the code comes from.
SourceCalls ==
  { k \in DOMAIN calls :
      calls[k].call.op \in {"application.saveGithubProvider",
                            "application.saveGitProvider",
                            "application.saveDockerProvider"} }

\* C34: for a github source the source is configured by a fixed precedence: the
\* owner's registered integration identity (githubId) when there is one, else
\* the owner's registered SSH key, else the anonymous https transport; one
\* reconcile configures exactly one of the three.
C34_SourcePrecedence ==
  (Provisioning /\ Config.kind = "Application" /\ Config.src = "github")
    => /\ Cardinality(SourceCalls) <= 1
       /\ \A k \in SourceCalls :
            LET org == getOrgConfig(Config.owner)
                c == calls[k].call
            IN  IF org.githubId # ""
                THEN c.op = "application.saveGithubProvider"
                ELSE IF org.sshKeyId # ""
                THEN /\ c.op = "application.saveGitProvider"
                     /\ c.arg.sshKey = org.sshKeyId
                ELSE /\ c.op = "application.saveGitProvider"
                     /\ c.arg.sshKey = ""
                     /\ c.arg.source = "https://github.com/" \o Config.owner \o "/"
                                           \o Config.repo \o ".git"

\* The requests of the reconcile at idx that configure the build.
BuildCalls == { k \in DOMAIN calls : calls[k].call.op = "application.saveBuildType" }

\* The reconcile at idx has gone past its build step: the resource limits were
\* requested.
PastBuild ==
  \E k \in DOMAIN calls :
    calls[k].call.op = "application.update" /\ calls[k].call.arg.cpuLimit # ""

\* C35: the build configuration is never sent for a docker image, spec.build
\* or not; for a github source it is sent exactly once, spec.build or not, with
\* the type, "dockerfile" when none is given, the dockerfile, "Dockerfile" when
\* none is given, and the context, "." when none is given.
C35_BuildConfig ==
  (Provisioning /\ Config.kind = "Application")
    => /\ Config.src = "docker" => BuildCalls = {}
       /\ (Config.src = "github" /\ PrebuiltOf(Subdomain) = NoImage /\ PastBuild)
            => /\ Cardinality(BuildCalls) = 1
               /\ \A k \in BuildCalls :
                    calls[k].call.arg.build =
                      << IF Config.buildType = "" THEN "dockerfile" ELSE Config.buildType,
                         IF Config.dockerfile = "" THEN "Dockerfile" ELSE Config.dockerfile,
                         IF Config.context = "" THEN "." ELSE Config.context,
                         "" >>

\* The secretRefs of the manifest whose SECRET_ variable is not set.
Unresolved(config) ==
  { i \in DOMAIN config.secretRefs : config.secretRefs[i].secret \notin DOMAIN SecretEnv }

\* The lines the manifest's environment should come to: every static pair, then
\* every secretRef whose variable is set, in the manifest's order.
RECURSIVE ResolvedLines(_)
ResolvedLines(refs) ==
  IF Len(refs) = 0 THEN << >>
  ELSE (IF Head(refs).secret \in DOMAIN SecretEnv
        THEN << Head(refs).name \o "=" \o SecretEnv[Head(refs).secret] >>
        ELSE << >>) \o ResolvedLines(Tail(refs))

StaticLines(config) ==
  [i \in DOMAIN config.env |-> config.env[i][1] \o "=" \o config.env[i][2]]

\* C36: a secretRef whose SECRET_ variable is not set never fails the reconcile:
\* a reconcile of such a manifest fails only when a request failed, it succeeds
\* when every request was answered, and the environment it sends holds every
\* static pair and every resolved secretRef and no line for the unresolved one.
C36_MissingSecretWarns ==
  (Provisioning /\ Config.kind = "Application" /\ Unresolved(Config) # {})
    => /\ \A k \in DOMAIN calls :
            calls[k].call.op = "application.saveEnvironment"
              => calls[k].call.arg.env =
                   Join(StaticLines(Config) \o ResolvedLines(Config.secretRefs))
       /\ (Len(results) = idx /\ ~results[idx].success)
            => /\ calls[Len(calls)].outcome = "failed"
               /\ results[idx].error = API_ERROR
       /\ (Len(results) = idx /\ \A k \in DOMAIN calls : calls[k].outcome = "ok")
            => results[idx].success

\* C36 witness: the reconcile of the manifest with MODE, the resolved DB and the
\* unresolved KEY has succeeded, and the application holds the two lines.
C36_Witness ==
  /\ Provisioning
  /\ Config = Demo2Config
  /\ Unresolved(Config) = {2}
  /\ Len(results) = idx
  /\ results[idx].success
  /\ \E k \in DOMAIN calls :
       /\ calls[k].call.op = "application.saveEnvironment"
       /\ calls[k].outcome = "ok"
       /\ calls[k].call.arg.env = "MODE=prod\nDB=postgres://db"
  /\ remote.apps[results[idx].applicationId].envText = "MODE=prod\nDB=postgres://db"

\* The step of provisionApplication a request belongs to: 1 project,
\* 2 application, 3 source, 4 build, 5 resources, 6 environment, 7 domain,
\* 8 deployment; 0 for a request of no step.
StepOf(c) ==
  CASE c.op = "project.create" -> 1
    [] c.op = "application.create" -> 2
    [] c.op = "application.update" /\ c.arg.sourceType # "" -> 3
    [] c.op \in {"application.saveGitProvider", "application.saveDockerProvider",
                 "application.saveGithubProvider"} -> 3
    [] c.op = "application.saveBuildType" -> 4
    [] c.op = "application.update" /\ c.arg.cpuLimit # "" -> 5
    [] c.op = "application.saveEnvironment" -> 6
    [] c.op = "domain.create" -> 7
    [] c.op \in {"application.deploy", "application.redeploy"} -> 8
    [] OTHER -> 0

MaxProjects == 3

\* The project ids the control plane hands out.
ProjectIds == SubSeq(<< "prj-a", "prj-b", "prj-c", "prj-d", "prj-e" >>, 1, MaxProjects)

DedupeNames == {"provisioner-demo", "provisioner-wiki"}

\* What project.one answers for a project's environments: none, or the one
\* environment with its applications, given as their number.
EnvironmentLists == { << >>, << 1 >>, << 2 >> }

\* The listings of project.all: projects with distinct ids, in any order.
Listings ==
  UNION { { l \in [1..n -> [projectId : { ProjectIds[i] : i \in 1..MaxProjects },
                            name : DedupeNames,
                            environments : EnvironmentLists]] :
              \A i, j \in 1..n : l[i].projectId = l[j].projectId => i = j }
          : n \in 0..MaxProjects }

dryRun == \E i \in DOMAIN argv : argv[i] = "--dry-run"

\* byName: the names of the listing in the order of their first occurrence
\* (the insertion order of the Map), each with its projects in listing order.
RECURSIVE namesOf(_)
namesOf(projects) ==
  IF Len(projects) = 0 THEN << >>
  ELSE LET rest == namesOf(SubSeq(projects, 1, Len(projects) - 1))
           name == projects[Len(projects)].name
       IN  IF \E i \in DOMAIN rest : rest[i] = name THEN rest ELSE Append(rest, name)

byName(projects, name) == SelectSeq(projects, LAMBDA p : p.name = name)

duplicates(projects) ==
  SelectSeq(namesOf(projects), LAMBDA name : Len(byName(projects, name)) > 1)

\* full.environments?.[0]?.applications?.length || 0
appCount(full) ==
  IF Len(full.environments) = 0 THEN 0 ELSE full.environments[1]

\* client.getProject: the project of that id as the control plane holds it.
getProject(R, projectId) ==
  R.projects[CHOOSE i \in DOMAIN R.projects : R.projects[i].projectId = projectId]

\* The comparator that keeps the project with the fewest applications.
compareDetailsFewestFirst(a, b) ==
  IF b.appCount # a.appCount THEN a.appCount - b.appCount
  ELSE localeCompare(a.projectId, b.projectId)

\* The comparator of details.sort: most applications first, then by projectId.
compareDetails(a, b) ==
  IF b.appCount # a.appCount THEN b.appCount - a.appCount
  ELSE localeCompare(a.projectId, b.projectId)

\* Array.prototype.sort with that comparator: a stable sort.
RECURSIVE sortDetails(_)
sortDetails(details) ==
  IF Len(details) <= 1 THEN details
  ELSE LET sorted == sortDetails(SubSeq(details, 1, Len(details) - 1))
           d == details[Len(details)]
           at == Cardinality({ i \in DOMAIN sorted : compareDetails(sorted[i], d) <= 0 })
       IN  SubSeq(sorted, 1, at) \o << d >> \o SubSeq(sorted, at + 1, Len(sorted))

NoDedupe == [duplicates |-> << >>, remove |-> << >>, totalDeleted |-> 0]

DedupeExit(code) ==
  /\ pc' = "exit"
  /\ exitCode' = code

\* main up to the connectivity check: createDokployClient throws without a key.
DedupeMain ==
  /\ pc = "start"
  /\ IF ~apiKey THEN DedupeExit(1)
     ELSE \E healthy \in BOOLEAN :
            IF healthy THEN pc' = "D:listProjects" /\ exitCode' = exitCode
            ELSE DedupeExit(1)
  /\ UNCHANGED << others, inputs, remote, idx, results, inflight, resp, cur, calls,
                  gh, before >>

\* listProjects, the grouping by name, and the exit when no name is duplicated.
DedupeListProjects ==
  /\ pc = "D:listProjects"
  /\ \E ok \in BOOLEAN :
       IF ~ok THEN DedupeExit(1) /\ UNCHANGED << cur, idx >>
       ELSE IF Len(duplicates(remote.projects)) = 0
       THEN DedupeExit(0) /\ UNCHANGED << cur, idx >>
       ELSE /\ cur' = [NoDedupe EXCEPT !.duplicates =
                          [i \in DOMAIN duplicates(remote.projects) |->
                             byName(remote.projects, duplicates(remote.projects)[i])]]
            /\ idx' = 1
            /\ pc' = "D:getProject"
            /\ exitCode' = exitCode
  /\ UNCHANGED << others, inputs, remote, results, inflight, resp, calls, gh, before >>

\* The details of the projects of one name, sorted; a getProject that throws
\* rejects Promise.all and main().catch ends the process.
DedupeDetails ==
  /\ pc = "D:getProject"
  /\ idx <= Len(cur.duplicates)
  /\ \E ok \in BOOLEAN :
       IF ~ok THEN DedupeExit(1) /\ UNCHANGED << cur, results >>
       ELSE LET projectList == cur.duplicates[idx]
                details == sortDetails(
                  [i \in DOMAIN projectList |->
                     [projectId |-> projectList[i].projectId,
                      name |-> projectList[i].name,
                      appCount |-> appCount(getProject(remote, projectList[i].projectId))]])
            IN  /\ cur' = [cur EXCEPT !.remove = Tail(details)]
                /\ results' = Append(results, [name |-> details[1].name,
                                               keep |-> details[1].projectId,
                                               remove |-> Tail(details)])
                /\ pc' = "D:deleteProject"
                /\ exitCode' = exitCode
  /\ UNCHANGED << others, inputs, remote, idx, inflight, resp, calls, gh, before >>

\* One turn of the loop over remove: deleteProject unless --dry-run; a delete
\* that throws is logged and the loop goes on. After the last one, the next name.
DedupeDelete ==
  /\ pc = "D:deleteProject"
  /\ IF Len(cur.remove) = 0
     THEN /\ idx' = idx + 1
          /\ pc' = "D:getProject"
          /\ UNCHANGED << cur, remote, calls >>
     ELSE LET dup == Head(cur.remove) IN
          /\ UNCHANGED << idx, pc >>
          /\ IF dryRun
             THEN /\ cur' = [cur EXCEPT !.remove = Tail(cur.remove),
                                        !.totalDeleted = cur.totalDeleted + 1]
                  /\ UNCHANGED << remote, calls >>
             ELSE \E ok \in BOOLEAN :
                    /\ calls' = Append(calls, [call |-> Call("project.remove", dup.projectId),
                                               outcome |-> IF ok THEN "ok" ELSE "failed"])
                    /\ remote' = IF ok
                                 THEN [remote EXCEPT !.projects =
                                         SelectSeq(remote.projects,
                                                   LAMBDA p : p.projectId # dup.projectId)]
                                 ELSE remote
                    /\ cur' = [cur EXCEPT !.remove = Tail(cur.remove),
                                          !.totalDeleted = cur.totalDeleted
                                                           + (IF ok THEN 1 ELSE 0)]
  /\ UNCHANGED << others, inputs, results, exitCode, inflight, resp, gh, before >>

\* After the last name the summary is printed and main returns.
DedupeSummary ==
  /\ pc = "D:getProject"
  /\ idx > Len(cur.duplicates)
  /\ DedupeExit(0)
  /\ UNCHANGED << others, inputs, remote, idx, results, inflight, resp, cur, calls,
                  gh, before >>

DedupeInit ==
  /\ argv \in { << >>, << "--dry-run" >> }
  /\ apiKey \in BOOLEAN
  /\ prebuilt = {}
  /\ remote \in { [projects |-> l] : l \in Listings }
  /\ before = remote
  /\ pc = "start"
  /\ idx = 0
  /\ results = << >>
  /\ exitCode = 0
  /\ inflight = {}
  /\ resp = NoResponse
  /\ cur = NoDedupe
  /\ calls = << >>
  /\ gh = << >>
  /\ runs = << >>
  /\ overlap = FALSE
  /\ lock = {}
  /\ manifest = << >>
  /\ verdict = << >>

DedupeNext ==
  \/ DedupeMain
  \/ DedupeListProjects
  \/ DedupeDetails
  \/ DedupeDelete
  \/ DedupeSummary

SpecDedupe == DedupeInit /\ [][DedupeNext]_vars

\* The ids of the projects of that name on the control plane R, and the number
\* of applications of a project.
IdsNamed(R, name) ==
  { R.projects[i].projectId : i \in { j \in DOMAIN R.projects : R.projects[j].name = name } }

Applications(R, projectId) == appCount(getProject(R, projectId))

\* The project ids the script asked the control plane to delete.
Deleted == { calls[k].call.arg : k \in DOMAIN calls }

====
